---- MODULE Spec2Model ----
(***************************************************************************)
(* Model of the multi-sheet question router of the SeaTalk bot             *)
(* (src/Functions/question_processor.py) together with the spreadsheet     *)
(* client it reads from (src/Functions/sheets_client.py).                  *)
(*                                                                         *)
(* Texts are TLA+ strings; lower-casing and substring search are computed  *)
(* character by character.  A DataFrame is a record of its column labels   *)
(* and its rows; None is a distinguished record.                           *)
(***************************************************************************)
EXTENDS Integers, Sequences, FiniteSets, TLC

VARIABLES
  analyzer_main,        \* QuestionProcessor.analyzer_main
  analyzer_secondary,   \* QuestionProcessor.analyzer_secondary
  is_ready_main,        \* QuestionProcessor.is_ready_main
  is_ready_secondary,   \* QuestionProcessor.is_ready_secondary
  sheet_ranges,         \* SheetsClient.sheet_ranges: the configured keys
  remote,               \* what the spreadsheet service answers, per key
  call,                 \* the call being answered and what it did
  flips,                \* how often the router changed Ready <-> Degraded
  pc,                   \* per request thread: the statement it is at
  loc,                  \* per request thread: its local variables
  question_processor,   \* app.py: whether the global holds a QuestionProcessor
  groq_client,          \* app.py: whether the global holds a GroqClient
  groq_api,             \* what the completion service does with a request
  reply,                \* the message app.py is answering and what it did
  input,                \* the argument a function is applied to
  output                \* the function applied and its value

\* the globals of app.py and the message being answered
appVars == <<question_processor, groq_client, groq_api, reply>>

\* the argument and the value of a function applied on its own
funVars == <<input, output>>

vars == <<analyzer_main, analyzer_secondary, is_ready_main,
          is_ready_secondary, sheet_ranges, remote, call, flips, pc, loc,
          appVars, funVars>>

----------------------------------------------------------------------------
(* Bounds *)

\* the Ready <-> Degraded changes that are counted
MaxFlips == 3

----------------------------------------------------------------------------
(* Text: str.lower() and the `in` operator of Python on strings *)

UpperChars == "ABCDEFGHIJKLMNOPQRSTUVWXYZÓÇÃÁÉÍÚÂÊÕÀ"
LowerChars == "abcdefghijklmnopqrstuvwxyzóçãáéíúâêõà"

LowerChar(c) ==
  IF \E i \in 1..Len(UpperChars) : SubSeq(UpperChars, i, i) = c
  THEN LET i == CHOOSE j \in 1..Len(UpperChars) : SubSeq(UpperChars, j, j) = c
       IN  SubSeq(LowerChars, i, i)
  ELSE c

RECURSIVE lower(_)
lower(s) ==
  IF s = "" THEN ""
  ELSE IF Len(s) = 1 THEN LowerChar(s)
  ELSE LET h == Len(s) \div 2
       IN lower(SubSeq(s, 1, h)) \o lower(SubSeq(s, h + 1, Len(s)))

\* t in s
Contains(s, t) ==
  \E i \in 1..(Len(s) - Len(t) + 1) : SubSeq(s, i, i + Len(t) - 1) = t

\* any(w in s for w in words)
ContainsAny(s, words) == \E w \in words : Contains(s, w)

\* The pictographs of the response texts, each written as one character that
\* occurs nowhere else in a text and that str.lower() leaves alone
CrossMark == "×"        \* U+274C
WarningSign == "¡"      \* U+26A0 U+FE0F
QuestionSign == "¿"     \* U+2753
CheckMark == "±"        \* U+2705
RobotFace == "®"        \* U+1F916
Hourglass == "©"        \* U+231B
BlueBook == "§"         \* U+1F4D8
Clipboard == "¶"        \* U+1F4CB
BarChart == "¤"         \* U+1F4CA
Pushpin == "¦"          \* U+1F4CC
Diamond == "º"          \* U+1F539
Bullet == "·"           \* U+2022
EmDash == "¬"           \* U+2014
\* and the grave accent U+0060, which a TLA+ string cannot hold, is written ´

\* sep.join(parts)
RECURSIVE join(_, _)
join(parts, sep) ==
  IF Len(parts) = 0 THEN ""
  ELSE IF Len(parts) = 1 THEN parts[1]
  ELSE parts[1] \o sep \o join(Tail(parts), sep)

\* s * n
RECURSIVE times(_, _)
times(s, n) == IF n <= 0 THEN "" ELSE s \o times(s, n - 1)

\* s.ljust(width)
ljust(s, width) == s \o times(" ", width - Len(s))

----------------------------------------------------------------------------
(* pandas values *)

None == [tag |-> "None"]

\* a missing cell (None / NaN inside a DataFrame)
NaN == "<NaN>"

DataFrame(cols, rws) == [tag |-> "DataFrame", columns |-> cols, rows |-> rws]

\* pd.DataFrame()
EmptyFrame == DataFrame(<<>>, <<>>)

\* DataFrame.empty: no rows or no columns
df_empty(df) == Len(df.rows) = 0 \/ Len(df.columns) = 0

\* Series.astype(str) on one cell
astype_str(c) == IF c = NaN THEN "None" ELSE c

\* Series.str.lower() on one cell: a missing cell stays missing
str_lower(c) == IF c = NaN THEN NaN ELSE lower(c)

\* one row of pd.DataFrame(values[1:], columns=values[0]): short rows are
\* padded with missing cells
PadRow(row, n) == [j \in 1..n |-> IF j <= Len(row) THEN row[j] ELSE NaN]

----------------------------------------------------------------------------
(* The spreadsheet service and SheetsClient.get_all_data *)

SheetKeys == {"main", "secondary", "logica"}

HttpError == [tag |-> "HttpError"]
Values(v) == [tag |-> "values", values |-> v]

\* answers of spreadsheets().values().get(...).execute() for the two data tabs
DataAnswers ==
  { HttpError,
    Values(<<>>),
    Values(<< <<"Indicador", "Target", "Real">> >>),
    Values(<< <<"Indicador", "Target", "Real">>,
              <<"OTD", "95", "91">>,
              <<"Backlog", "100">> >>) }

\* answers for the range "Logica indicadores!A1:B29"
LogicAnswers ==
  { HttpError,
    Values(<<>>),
    Values(<< <<"Indicador", "Logica">> >>),
    Values(<< <<"Indicador">>, <<"OTD">>, <<"Backlog">> >>),
    Values(<< <<"Indicador">>, <<"OTD", "entregas no prazo">> >>),
    Values(<< <<"Indicador", "Logica">>,
              <<"OTD", "entregas no prazo">>,
              <<"Backlog", "pedidos pendentes">>,
              <<"Backlog Total", "soma do backlog">>,
              <<"otd", "duplicado">> >>),
    Values(<< <<"Indicador", "Logica">>,
              <<"Backlog Total", "soma do backlog">>,
              <<"Backlog">>,
              <<"OTD", "entregas no prazo">> >>),
    Values(<< <<"Indicador", "Logica">>,
              <<"OTD", "entregas no prazo">>,
              <<"", "continua na linha seguinte">>,
              <<"Backlog", "pedidos pendentes">> >>) }

Answers(key) == IF key = "logica" THEN LogicAnswers ELSE DataAnswers

\* pd.DataFrame(values[1:], columns=values[0]) pads the data rows to the
\* longest of them and raises when that length is not the header's
FrameRaises(v) ==
  /\ Len(v) >= 2
  /\ \/ \E i \in 2..Len(v) : Len(v[i]) > Len(v[1])
     \/ \A i \in 2..Len(v) : Len(v[i]) < Len(v[1])

get_all_data(ranges, rem, sheet_key) ==
  IF sheet_key \notin ranges THEN None
  ELSE LET ans == rem[sheet_key] IN
       IF ans.tag = "HttpError" THEN None
       ELSE IF Len(ans.values) = 0 THEN EmptyFrame
       ELSE IF FrameRaises(ans.values) THEN None
       ELSE DataFrame(ans.values[1],
                      [i \in 1..(Len(ans.values) - 1) |->
                         PadRow(ans.values[i + 1], Len(ans.values[1]))])

----------------------------------------------------------------------------
(* ShopeeDataAnalyzer *)

Raised(what) == [tag |-> "raised", error |-> what]

\* ShopeeDataAnalyzer(df): _validate_dataframe raises on an empty frame
ShopeeDataAnalyzer(df) ==
  IF df = None \/ df_empty(df) THEN Raised("ValueError")
  ELSE [tag |-> "Analyzer", df |-> df]

get_column_names(analyzer) == analyzer.df.columns

\* ShopeeDataAnalyzer.get_data_preview(n): df.head(n)
get_data_preview(analyzer, n) ==
  DataFrame(analyzer.df.columns,
            SubSeq(analyzer.df.rows, 1,
                   IF Len(analyzer.df.rows) < n THEN Len(analyzer.df.rows) ELSE n))

\* SheetsClient.get_cell_value: the first cell of the answer, None when the
\* request fails or the answer has no cell
get_cell_value(rem, range_name) ==
  LET ans == rem[range_name] IN
  IF ans.tag = "HttpError" THEN None
  ELSE IF Len(ans.values) = 0 THEN None
  ELSE IF Len(ans.values[1]) = 0 THEN None
  ELSE [tag |-> "cell", value |-> ans.values[1][1]]

CellAnswers == { HttpError, Values(<<>>), Values(<< <<"03/11">> >>) }

----------------------------------------------------------------------------
(* QuestionProcessor: the object and its loaders *)

\* the four attributes of a QuestionProcessor
Processor(am, as, rm, rs) ==
  [analyzer_main |-> am, analyzer_secondary |-> as,
   is_ready_main |-> rm, is_ready_secondary |-> rs]

Self == Processor(analyzer_main, analyzer_secondary,
                  is_ready_main, is_ready_secondary)

\* the attributes set by __init__ before _load_data runs
Blank == Processor(None, None, FALSE, FALSE)

\* variant: a failed reload keeps the analyzer of the previous load
load_main_data_stale(self, ranges, rem) ==
  LET df == get_all_data(ranges, rem, "main") IN
  IF df = None \/ df_empty(df)
  THEN [self EXCEPT !.is_ready_main = FALSE]
  ELSE [self EXCEPT !.analyzer_main = ShopeeDataAnalyzer(df),
                    !.is_ready_main = TRUE]

\* variant: a reload is attempted only while the main tab is loaded, so a
\* router that lost it never recovers
load_main_data_sticky(self, ranges, rem) ==
  LET df == get_all_data(ranges, rem, "main") IN
  IF ~self.is_ready_main \/ df = None \/ df_empty(df)
  THEN [self EXCEPT !.analyzer_main = None, !.is_ready_main = FALSE]
  ELSE [self EXCEPT !.analyzer_main = ShopeeDataAnalyzer(df),
                    !.is_ready_main = TRUE]

load_main_data(self, ranges, rem) ==
  LET df == get_all_data(ranges, rem, "main") IN
  IF df = None \/ df_empty(df)
  THEN [self EXCEPT !.analyzer_main = None, !.is_ready_main = FALSE]
  ELSE LET a == ShopeeDataAnalyzer(df) IN
       IF a.tag = "raised"
       THEN [self EXCEPT !.analyzer_main = None, !.is_ready_main = FALSE]
       ELSE [self EXCEPT !.analyzer_main = a, !.is_ready_main = TRUE]

load_secondary_data(self, ranges, rem) ==
  LET df == get_all_data(ranges, rem, "secondary") IN
  IF df = None \/ df_empty(df)
  THEN [self EXCEPT !.analyzer_secondary = None, !.is_ready_secondary = FALSE]
  ELSE LET a == ShopeeDataAnalyzer(df) IN
       IF a.tag = "raised"
       THEN [self EXCEPT !.analyzer_secondary = None,
                         !.is_ready_secondary = FALSE]
       ELSE [self EXCEPT !.analyzer_secondary = a, !.is_ready_secondary = TRUE]

load_data(self, ranges, rem) ==
  load_secondary_data(load_main_data(self, ranges, rem), ranges, rem)

\* variant: ready as soon as any tab is loaded
is_ready_any(self) == self.is_ready_main \/ self.is_ready_secondary

\* variant: ready only when both tabs are loaded
is_ready_both(self) == self.is_ready_main /\ self.is_ready_secondary

\* the property QuestionProcessor.is_ready
is_ready(self) == self.is_ready_main

RefreshScopes == {"all", "main", "secondary"}

\* variant: the status of a single key is taken before the key is reloaded
refresh_data_early_status(self, ranges, rem, sheet) ==
  LET s1 == IF sheet \in {"all", "main"}
            THEN load_main_data(self, ranges, rem) ELSE self
      s2 == IF sheet \in {"all", "secondary"}
            THEN load_secondary_data(s1, ranges, rem) ELSE s1
      keys == (IF sheet \in {"all", "main"} THEN <<"main">> ELSE <<>>)
              \o (IF sheet \in {"all", "secondary"}
                  THEN <<"secondary">> ELSE <<>>)
  IN [self |-> s2,
      fetched |-> keys,
      ret |-> IF sheet = "all"
              THEN [tag |-> "refresh_status",
                    lines |-> << IF s2.is_ready_main
                                 THEN CheckMark \o " Aba principal OK"
                                 ELSE CrossMark \o " Aba principal falhou",
                                 IF s2.is_ready_secondary
                                 THEN CheckMark \o " Aba secundária OK"
                                 ELSE WarningSign \o " Aba secundária indisponível" >>]
              ELSE [tag |-> "refresh_status",
                    lines |-> << IF (IF sheet = "main" THEN self.is_ready_main
                                     ELSE self.is_ready_secondary)
                                 THEN CheckMark \o " " \o sheet \o " recarregada!"
                                 ELSE CrossMark \o " Falha ao recarregar " \o sheet >>]]

\* refresh_data(sheet): the reloaded object, the status text and the keys
\* that were fetched, in order
refresh_data(self, ranges, rem, sheet) ==
  LET s1 == IF sheet \in {"all", "main"}
            THEN load_main_data(self, ranges, rem) ELSE self
      s2 == IF sheet \in {"all", "secondary"}
            THEN load_secondary_data(s1, ranges, rem) ELSE s1
      keys == (IF sheet \in {"all", "main"} THEN <<"main">> ELSE <<>>)
              \o (IF sheet \in {"all", "secondary"}
                  THEN <<"secondary">> ELSE <<>>)
  IN [self |-> s2,
      fetched |-> keys,
      ret |-> IF sheet = "all"
              THEN [tag |-> "refresh_status",
                    lines |-> << IF s2.is_ready_main
                                 THEN CheckMark \o " Aba principal OK"
                                 ELSE CrossMark \o " Aba principal falhou",
                                 IF s2.is_ready_secondary
                                 THEN CheckMark \o " Aba secundária OK"
                                 ELSE WarningSign \o " Aba secundária indisponível" >>]
              ELSE [tag |-> "refresh_status",
                    lines |-> << IF (IF sheet = "main" THEN s2.is_ready_main
                                     ELSE s2.is_ready_secondary)
                                 THEN CheckMark \o " " \o sheet \o " recarregada!"
                                 ELSE CrossMark \o " Falha ao recarregar " \o sheet >>]]

----------------------------------------------------------------------------
(* The indicator sub-router: QuestionProcessor.explicar_indicador (the      *)
(* second definition of the class, which is the one Python keeps)          *)

LogicNotLoaded == [tag |-> "logic_not_loaded"]
WhichIndicator == [tag |-> "which_indicator"]

\* the condition of the list-all branch, with Python's precedence:
\* a or b or (c and not d)
ListAllTrigger(text_low) ==
  \/ Contains(text_low, "quais indicadores")
  \/ Contains(text_low, "listar indicadores")
  \/ (Contains(text_low, "todos os indicadores")
      /\ ~Contains(text_low, "explica"))

ExplainAllTrigger(text_low) ==
  \/ Contains(text_low, "explica todos")
  \/ Contains(text_low, "explicar todos")
  \/ Contains(text_low, "explicação de todos")

ExplainKeyword(text_low) ==
  \/ Contains(text_low, "explica")
  \/ Contains(text_low, "lógica")
  \/ Contains(text_low, "logica")

\* variant: the list-all branch gives up silently when the tab is missing
list_all_silent(df) ==
  IF df = None \/ df_empty(df) THEN None
  ELSE [tag |-> "indicator_list",
        names |-> [i \in 1..Len(df.rows) |-> df.rows[i][1]]]

\* the list-all branch, given the fetched frame
list_all(df) ==
  IF df = None \/ df_empty(df) THEN LogicNotLoaded
  ELSE [tag |-> "indicator_list",
        names |-> [i \in 1..Len(df.rows) |-> df.rows[i][1]]]

\* the explain-all branch: df.columns[1] is outside any try block
explain_all(df) ==
  IF df = None \/ df_empty(df) THEN LogicNotLoaded
  ELSE IF Len(df.columns) < 2 THEN Raised("IndexError")
  ELSE [tag |-> "explain_all",
        entries |-> [i \in 1..Len(df.rows) |->
                       [nome |-> df.rows[i][1], logica |-> df.rows[i][2]]]]

\* index of the first lower-cased indicator that occurs in the text, 0 if none
FirstIndicator(df, text_low) ==
  LET hits == {i \in 1..Len(df.rows) :
                 Contains(text_low, lower(astype_str(df.rows[i][1])))}
  IN IF hits = {} THEN 0 ELSE CHOOSE i \in hits : \A j \in hits : i <= j

\* the explain-one branch: everything after the fetch is inside try/except
explain_one(df, text_low) ==
  IF df = None \/ df_empty(df) THEN LogicNotLoaded
  ELSE IF Len(df.columns) < 2
  THEN [tag |-> "logic_error", error |-> "IndexError",
        message |-> "index 1 is out of bounds for axis 0 with size 1"]
  ELSE LET k == FirstIndicator(df, text_low)
           encontrado == IF k = 0 THEN "" ELSE lower(astype_str(df.rows[k][1]))
           linha == {i \in 1..Len(df.rows) :
                       str_lower(df.rows[i][1]) = encontrado}
       IN IF k = 0 \/ encontrado = "" THEN WhichIndicator
          ELSE IF linha = {}
               THEN [tag |-> "logic_error", error |-> "IndexError",
                     message |-> "single positional indexer is out-of-bounds"]
          ELSE LET r == CHOOSE i \in linha : \A j \in linha : i <= j
               IN [tag |-> "explanation",
                   nome |-> df.rows[r][1], logica |-> df.rows[r][2]]

\* explicar_indicador(message_text): what it returns (None, a response or an
\* escaping exception) and the keys it fetched
explicar_indicador(ranges, rem, message_text) ==
  LET text_low == lower(message_text)
      df == get_all_data(ranges, rem, "logica")
  IN IF ListAllTrigger(text_low)
     THEN [ret |-> list_all(df), fetched |-> <<"logica">>]
     ELSE IF ExplainAllTrigger(text_low)
     THEN [ret |-> explain_all(df), fetched |-> <<"logica">>]
     ELSE IF ~ExplainKeyword(text_low)
     THEN [ret |-> None, fetched |-> <<>>]
     ELSE [ret |-> explain_one(df, text_low), fetched |-> <<"logica">>]

----------------------------------------------------------------------------
(* The handlers of the remaining intents *)

NotReady == [tag |-> "not_ready"]
HelpMessage == [tag |-> "help"]

\* str.strip() for the blank the questions are built with
RECURSIVE strip(_)
strip(s) ==
  IF s = "" THEN ""
  ELSE IF SubSeq(s, 1, 1) = " " THEN strip(SubSeq(s, 2, Len(s)))
  ELSE IF SubSeq(s, Len(s), Len(s)) = " " THEN strip(SubSeq(s, 1, Len(s) - 1))
  ELSE s

HelpWords == {"help", "comandos", "ajuda"}
ColumnWords == {"colunas", "columns", "campos", "fields"}
PreviewWords == {"!indicadores", "!indicador", "!performance", "!table"}
SecondaryWords == {"!Leftover", "!sobras", "!leftover"}
RefreshWords == {"recarregar", "atualizar", "refresh", "reload"}

list_columns(self) ==
  LET main == IF self.analyzer_main # None
              THEN << [aba |-> "principal",
                       columns |-> get_column_names(self.analyzer_main)] >>
              ELSE <<>>
      sec  == IF self.analyzer_secondary # None
              THEN << [aba |-> "secundária",
                       columns |-> get_column_names(self.analyzer_secondary)] >>
              ELSE <<>>
  IN IF main \o sec = <<>> THEN [tag |-> "no_sheet"]
     ELSE [tag |-> "columns", sections |-> main \o sec]

show_data_preview(self, rem) ==
  IF self.analyzer_main = None
  THEN [ret |-> [tag |-> "main_unavailable"], fetched |-> <<>>]
  ELSE LET b1 == get_cell_value(rem, "Filter!B1")
       IN [ret |-> [tag |-> "preview_main",
                    b1_value |-> IF b1 = None \/ b1.value = ""
                                 THEN "N/A" ELSE b1.value,
                    df |-> get_data_preview(self.analyzer_main, 24)],
           fetched |-> <<"Filter!B1">>]

show_secondary_data_preview(self) ==
  IF self.analyzer_secondary = None
  THEN [tag |-> "secondary_unavailable"]
  ELSE [tag |-> "preview_secondary",
        df |-> get_data_preview(self.analyzer_secondary, 24)]

get_default_response(question) == [tag |-> "default", question |-> question]

----------------------------------------------------------------------------
(* The texts: _format_dataframe and the string each response stands for *)

\* str() of a cell in an f-string or after astype(str): a missing cell is None
py_str(c) == IF c = NaN THEN "None" ELSE c

\* a cell after df.fillna("-")
fillna(c) == IF c = NaN THEN "-" ELSE c

Max(S) == CHOOSE x \in S : \A y \in S : y <= x

\* variant: the width of a column is that of its longest cell only
col_width_cells_only(df, j) ==
  Max({ Len(fillna(df.rows[i][j])) : i \in 1..Len(df.rows) })

\* col_widths[col]: the longest cell of the column or its label
col_width(df, j) ==
  Max({ Len(df.columns[j]) } \cup
      { Len(fillna(df.rows[i][j])) : i \in 1..Len(df.rows) })

\* "  ".join(cell.ljust(col_widths[col]) for col in df.columns)
format_line(df, cells) ==
  join([j \in 1..Len(df.columns) |-> ljust(cells[j], col_width(df, j))], "  ")

format_dataframe(df) ==
  IF df = None \/ df_empty(df)
  THEN CrossMark \o " DataFrame vazio ou inválido"
  ELSE format_line(df, df.columns) \o "\n" \o
       join([i \in 1..Len(df.rows) |->
               format_line(df, [j \in 1..Len(df.columns) |->
                                  fillna(df.rows[i][j])])],
            "\n")

HelpText ==
  "\n" \o Clipboard \o " **Comandos Disponíveis:**\n\n"
  \o "**Consultas de Indicadores (Aba Principal):**\n"
  \o Bullet \o " ´!Indicadores´ - Mostra como está o status dos Indicadores.\n"
  \o Bullet \o " ´Explicar [Indicador]´\n"
  \o Bullet \o " ´Quais indicadores existem?´ - Mostra todos os Indicadores do SITE\n\n"
  \o "**Leftover:**\n"
  \o Bullet \o " ´!Leftover´ - Mostra dados da segunda aba\n"
  \o Bullet \o " ´!Sobras´ - Alias para aba secundária\n\n"
  \o "**Informações:**\n"
  \o Bullet \o " ´!Ofensores´ - Lista maiores ofensores\n"
  \o Bullet \o " ´!Fora do target´ - Indicadores fora do target\n"
  \o Bullet \o " ´status´ - Status de todas as abas\n\n"
  \o "**Utilitários:**\n"
  \o Bullet \o " ´recarregar´ - Atualiza dados do Google Sheets\n"
  \o Bullet \o " ´colunas´ - Lista colunas disponíveis\n"
  \o Bullet \o " ´ajuda´ - Mostra esta mensagem\n\n"
  \o "**Exemplo de uso:**\n"
  \o "_\"!Indicadores\"_  \n"
  \o "_\"!Sobras\"_\n"
  \o "_\"status\"_\n"

\* strftime("%d-%m-%y") of the day before the call: digits and hyphens
ontem_formatado == "02-11-26"

\* one section of _list_columns; the second one opens with a line break
columns_section(sec) ==
  (IF sec.aba = "principal"
   THEN BarChart \o " **Colunas da Aba Principal:**\n"
   ELSE "\n" \o BarChart \o " **Colunas da Aba Secundária:**\n")
  \o join([j \in 1..Len(sec.columns) |-> "  " \o Bullet \o " " \o sec.columns[j]],
          "\n")

\* the string a response of the router is
text_of(resp) ==
  CASE resp.tag = "not_ready" ->
         CrossMark \o " Não foi possível carregar os dados. "
         \o "Verifique a configuração do Google Sheets."
    [] resp.tag = "logic_not_loaded" ->
         WarningSign \o " Não consegui carregar a aba 'Logica indicadores'."
    [] resp.tag = "which_indicator" ->
         BlueBook \o " Qual indicador você deseja que eu explique?"
    [] resp.tag = "indicator_list" ->
         Clipboard \o " **Lista de Indicadores Disponíveis:**\n\n"
         \o join([i \in 1..Len(resp.names) |->
                    Bullet \o " " \o py_str(resp.names[i])], "\n")
    [] resp.tag = "explain_all" ->
         BlueBook \o " **Explicação de Todos os Indicadores**\n\n"
         \o join([i \in 1..Len(resp.entries) |->
                    Diamond \o " **" \o py_str(resp.entries[i].nome) \o "**\n"
                    \o py_str(resp.entries[i].logica) \o "\n\n"
                    \o times(EmDash, 40) \o "\n\n"], "")
    [] resp.tag = "explanation" ->
         BlueBook \o " **Explicação do indicador: " \o py_str(resp.nome)
         \o "**\n\n" \o py_str(resp.logica)
    [] resp.tag = "logic_error" ->
         CrossMark \o " Erro ao consultar lógica dos indicadores: "
         \o resp.message
    [] resp.tag = "help" -> HelpText
    [] resp.tag = "columns" ->
         join([k \in 1..Len(resp.sections) |->
                 columns_section(resp.sections[k])], "\n")
    [] resp.tag = "no_sheet" -> CrossMark \o " Nenhuma aba disponível"
    [] resp.tag = "main_unavailable" ->
         CrossMark \o " Aba principal não disponível"
    [] resp.tag = "secondary_unavailable" ->
         CrossMark \o " Aba secundária não disponível. "
         \o "Configure GOOGLE_SHEET_RANGE_2 no .env"
    [] resp.tag = "preview_main" ->
         Clipboard \o " **Indicadores Performance SITE**\n"
         \o Pushpin \o " *Resumo do dia: **" \o resp.b1_value \o "**\n"
         \o "´´´\n" \o format_dataframe(resp.df) \o "\n´´´"
    [] resp.tag = "preview_secondary" ->
         Clipboard \o " **Resumo Leftover " \o ontem_formatado \o "**\n"
         \o "´´´\n" \o format_dataframe(resp.df) \o "\n´´´"
    [] resp.tag = "refresh_status" -> join(resp.lines, "\n")
    [] resp.tag = "default" ->
         "\n                " \o QuestionSign
         \o " Desculpe, não entendi sua pergunta: \"" \o resp.question
         \o "\"\n\n                Digite **ajuda** para ver os comandos "
         \o "disponíveis.\n                "

----------------------------------------------------------------------------
(* QuestionProcessor.process_question *)

\* what one call did: the value returned (or the exception that escaped),
\* the stage that produced it, the stages whose condition was evaluated, the
\* ranges fetched from the service, and the object afterwards
Outcome(ret, stage, evaluated, fetched, self) ==
  [ret |-> ret, stage |-> stage, evaluated |-> evaluated,
   fetched |-> fetched, self |-> self]

\* variant: the reload intent is tested before the help intent
dispatch_intents_refresh_first(self, ranges, rem, question) ==
  LET question_lower == strip(lower(question)) IN
  IF ContainsAny(question_lower, RefreshWords)
  THEN LET r == refresh_data(self, ranges, rem, "all")
       IN Outcome(r.ret, "refresh", <<"subrouter", "refresh">>,
                  r.fetched, r.self)
  ELSE IF ContainsAny(question_lower, HelpWords)
  THEN Outcome(HelpMessage, "help", <<"subrouter", "refresh", "help">>,
               <<>>, self)
  ELSE IF ContainsAny(question_lower, ColumnWords)
  THEN Outcome(list_columns(self), "columns",
               <<"subrouter", "refresh", "help", "columns">>, <<>>, self)
  ELSE IF ContainsAny(question_lower, PreviewWords)
  THEN LET r == show_data_preview(self, rem)
       IN Outcome(r.ret, "preview",
                  <<"subrouter", "refresh", "help", "columns", "preview">>,
                  r.fetched, self)
  ELSE IF ContainsAny(question_lower, SecondaryWords)
  THEN Outcome(show_secondary_data_preview(self), "secondary",
               <<"subrouter", "refresh", "help", "columns", "preview",
                 "secondary">>,
               <<>>, self)
  ELSE Outcome(get_default_response(question), "default",
               <<"subrouter", "refresh", "help", "columns", "preview",
                 "secondary", "default">>,
               <<>>, self)

\* process_question from "Comandos de ajuda" on: the intents after the
\* sub-router, in the order of the if statements
dispatch_intents(self, ranges, rem, question) ==
  LET question_lower == strip(lower(question)) IN
  IF ContainsAny(question_lower, HelpWords)
  THEN Outcome(HelpMessage, "help", <<"subrouter", "help">>, <<>>, self)
  ELSE IF ContainsAny(question_lower, ColumnWords)
  THEN Outcome(list_columns(self), "columns",
               <<"subrouter", "help", "columns">>, <<>>, self)
  ELSE IF ContainsAny(question_lower, PreviewWords)
  THEN LET r == show_data_preview(self, rem)
       IN Outcome(r.ret, "preview",
                  <<"subrouter", "help", "columns", "preview">>,
                  r.fetched, self)
  ELSE IF ContainsAny(question_lower, SecondaryWords)
  THEN Outcome(show_secondary_data_preview(self), "secondary",
               <<"subrouter", "help", "columns", "preview", "secondary">>,
               <<>>, self)
  ELSE IF ContainsAny(question_lower, RefreshWords)
  THEN LET r == refresh_data(self, ranges, rem, "all")
       IN Outcome(r.ret, "refresh",
                  <<"subrouter", "help", "columns", "preview", "secondary",
                    "refresh">>,
                  r.fetched, r.self)
  ELSE Outcome(get_default_response(question), "default",
               <<"subrouter", "help", "columns", "preview", "secondary",
                 "refresh", "default">>,
               <<>>, self)

\* variant: the refresh intent is tested before the readiness of the router
process_question_refresh_always(self, ranges, rem, question) ==
  IF ContainsAny(strip(lower(question)), RefreshWords)
  THEN Outcome(refresh_data(self, ranges, rem, "all").ret, "refresh",
               <<"refresh">>, <<"main", "secondary">>,
               refresh_data(self, ranges, rem, "all").self)
  ELSE IF ~is_ready(self)
  THEN Outcome(NotReady, "not_ready", <<>>, <<>>, self)
  ELSE LET explicacao == explicar_indicador(ranges, rem, question)
       IN IF explicacao.ret # None
          THEN Outcome(explicacao.ret, "subrouter", <<"subrouter">>,
                       explicacao.fetched, self)
          ELSE dispatch_intents(self, ranges, rem, question)

\* variant: a router that is not ready tries to load again by itself
process_question_retrying(self, ranges, rem, question) ==
  IF ~is_ready(self)
  THEN Outcome(NotReady, "not_ready", <<>>, <<>>, load_data(self, ranges, rem))
  ELSE LET explicacao == explicar_indicador(ranges, rem, question)
       IN IF explicacao.ret # None
          THEN Outcome(explicacao.ret, "subrouter", <<"subrouter">>,
                       explicacao.fetched, self)
          ELSE dispatch_intents(self, ranges, rem, question)

process_question(self, ranges, rem, question) ==
  IF ~is_ready(self)
  THEN Outcome(NotReady, "not_ready", <<>>, <<>>, self)
  ELSE LET explicacao == explicar_indicador(ranges, rem, question)
       IN IF explicacao.ret # None
          THEN Outcome(explicacao.ret, "subrouter", <<"subrouter">>,
                       explicacao.fetched, self)
          ELSE dispatch_intents(self, ranges, rem, question)

----------------------------------------------------------------------------
(* ShopeeDataAnalyzer: the queries.  The numeric columns hold integers; a  *)
(* quotient is kept as numerator and denominator.                          *)

possible_names == <<"produto", "product", "nome", "name", "item", "sku">>

Min(S) == CHOOSE x \in S : \A y \in S : x <= y

\* position of the column with the given label
col_index(df, label) ==
  CHOOSE j \in 1..Len(df.columns) : df.columns[j] = label

\* variant: the names are tried in the order of the list, each against every
\* column
find_product_column_by_name(df) ==
  LET hit(k) == { j \in 1..Len(df.columns) :
                    Contains(lower(df.columns[j]), possible_names[k]) }
      names == { k \in 1..Len(possible_names) : hit(k) # {} }
  IN IF names = {} THEN df.columns[1]
     ELSE df.columns[Min(hit(Min(names)))]

\* _find_product_column: the first column whose lower-cased label contains
\* one of the names, else the first column
find_product_column(df) ==
  LET hits == { j \in 1..Len(df.columns) :
                  \E k \in 1..Len(possible_names) :
                     Contains(lower(df.columns[j]), possible_names[k]) }
  IN IF hits = {} THEN df.columns[1]
     ELSE df.columns[Min(hits)]

\* Series.sum() of column q over the rows
RECURSIVE sum_cells(_, _)
sum_cells(rws, q) ==
  IF rws = <<>> THEN 0 ELSE Head(rws)[q] + sum_cells(Tail(rws), q)

\* (df[v] * df[w]).sum()
RECURSIVE sum_products(_, _, _)
sum_products(rws, v, w) ==
  IF rws = <<>> THEN 0
  ELSE Head(rws)[v] * Head(rws)[w] + sum_products(Tail(rws), v, w)

\* variant: a group is summarised by its largest quantity
group_max(df, p, q, key) ==
  Max({ df.rows[i][q] : i \in { k \in 1..Len(df.rows) : df.rows[k][p] = key } })

\* groupby(product_column).agg({quantity_column: 'sum'}) for one group
group_sum(df, p, q, key) ==
  sum_cells(SelectSeq(df.rows, LAMBDA r : r[p] = key), q)

\* get_summary_by_product(quantity_column): the frames it can return.
\* groupby sorts the groups by key and sort_values(ascending=False) then
\* sorts them with kind='quicksort', which is not stable: groups with equal
\* sums come in an order that depends on the build of numpy.
get_summary_by_product(df, quantity_column) ==
  LET product_column == find_product_column(df)
      p == col_index(df, product_column)
      q == col_index(df, quantity_column)
      keys == { df.rows[i][p] : i \in 1..Len(df.rows) }
      n == Cardinality(keys)
      orders == { f \in [1..n -> keys] :
                    /\ \A i, j \in 1..n : i # j => f[i] # f[j]
                    /\ \A i, j \in 1..n :
                          i < j => group_sum(df, p, q, f[i])
                                     >= group_sum(df, p, q, f[j]) }
  IN { DataFrame(<<product_column, quantity_column>>,
                 [i \in 1..n |-> <<f[i], group_sum(df, p, q, f[i])>>]) :
         f \in orders }

\* a float, as a quotient of integers
Quotient(num, den) == [num |-> num, den |-> den]
Zero == Quotient(0, 1)

\* df[df[filter_column].str.contains(filter_value, case=False, na=False)]
filter_rows(df, filter_column, filter_value) ==
  IF filter_column # "" /\ filter_value # ""
  THEN SelectSeq(df.rows,
                 LAMBDA r : Contains(lower(r[col_index(df, filter_column)]),
                                     lower(filter_value)))
  ELSE df.rows

\* variant: the filter is not applied
get_weighted_average_unfiltered(df, value_column, weight_column, filter_column, filter_value) ==
  LET v == col_index(df, value_column)
      w == col_index(df, weight_column)
      weighted_sum == sum_products(df.rows, v, w)
      total_weight == sum_cells(df.rows, w)
  IN IF total_weight = 0 THEN Zero
     ELSE Quotient(weighted_sum, total_weight)

get_weighted_average(df, value_column, weight_column, filter_column, filter_value) ==
  LET rws == filter_rows(df, filter_column, filter_value)
      v == col_index(df, value_column)
      w == col_index(df, weight_column)
      weighted_sum == sum_products(rws, v, w)
      total_weight == sum_cells(rws, w)
  IN IF rws = <<>> THEN Zero
     ELSE IF total_weight = 0 THEN Zero
     ELSE Quotient(weighted_sum, total_weight)

----------------------------------------------------------------------------
(* The single-sheet router: QuestionProcessor of src/question_processor.py. *)
(* It holds one analyzer and one flag, kept here in analyzer_main and       *)
(* is_ready_main.                                                           *)

\* _load_data: get_all_data() raising, or returning an empty frame, leaves the
\* router without analyzer and not ready
single_load_data(self, ranges, rem) == load_main_data(self, ranges, rem)

\* refresh_data: the reloaded router and the status text
single_refresh_data(self, ranges, rem) ==
  LET s1 == single_load_data(self, ranges, rem)
  IN [self |-> s1,
      ret |-> [tag |-> "refresh_status",
               lines |-> << IF s1.is_ready_main
                            THEN CheckMark \o " Dados recarregados com sucesso!"
                            ELSE CrossMark \o " Falha ao recarregar dados." >>]]

\* the if statements of process_question, in their order: the words looked
\* for in the question and the handler that is called
single_intents ==
  << [words |-> {"help", "comandos", "ajuda"},
      handler |-> "_get_help_message"],
     [words |-> {"colunas", "columns", "campos", "fields"},
      handler |-> "_list_columns"],
     [words |-> {"prévia", "preview", "mostrar dados", "show data"},
      handler |-> "_show_data_preview"],
     [words |-> {"quantidade total", "total de quantidade", "soma quantidade"},
      handler |-> "_get_total_quantity"],
     [words |-> {"média ponderada", "weighted average", "ponderada"},
      handler |-> "_get_weighted_average"],
     [words |-> {"top", "maiores", "principais", "melhores"},
      handler |-> "_get_top_products"],
     [words |-> {"buscar", "procurar", "search", "find", "produto"},
      handler |-> "_search_product"],
     [words |-> {"estatística", "stats", "resumo", "summary"},
      handler |-> "_get_statistics"],
     [words |-> {"resumo por produto", "agrupar por produto",
                 "group by product"},
      handler |-> "_get_product_summary"],
     [words |-> {"recarregar", "atualizar", "refresh", "reload"},
      handler |-> "refresh_data"] >>

\* what a handler of the single-sheet router returns, named by the handler
HandlerAnswer(handler, question) ==
  [tag |-> "handler", name |-> handler, question |-> question]

\* process_question of the single-sheet router
single_process_question(self, ranges, rem, question) ==
  IF ~self.is_ready_main
  THEN Outcome(NotReady, "not_ready", <<>>, <<>>, self)
  ELSE LET question_lower == strip(lower(question))
           hits == { k \in 1..Len(single_intents) :
                       ContainsAny(question_lower, single_intents[k].words) }
       IN IF hits = {}
          THEN Outcome(get_default_response(question),
                       "_get_default_response", <<>>, <<>>, self)
          ELSE IF single_intents[Min(hits)].handler = "refresh_data"
          THEN Outcome(single_refresh_data(self, ranges, rem).ret,
                       "refresh_data", <<>>, <<"main">>,
                       single_refresh_data(self, ranges, rem).self)
          ELSE Outcome(HandlerAnswer(single_intents[Min(hits)].handler,
                                     question),
                       single_intents[Min(hits)].handler, <<>>, <<>>, self)

----------------------------------------------------------------------------
(* The two triggers of the completion client: GroqClient.should_use_ai and *)
(* should_fallback_to_ai of app.py                                         *)

complex_keywords ==
  { "por que", "porque", "explique", "como funciona", "qual a diferença",
    "compare", "análise", "sugestão", "recomenda", "o que você acha",
    "me ajude", "não entendi", "dúvida", "quem", "o que é", "como" }

\* the characters str.split() separates words at
Whitespace == { " ", "\n", "\t" }

\* len(s.split()): the maximal runs of characters that are not white space
word_count(s) ==
  Cardinality({ i \in 1..Len(s) :
                  /\ SubSeq(s, i, i) \notin Whitespace
                  /\ (i = 1 \/ SubSeq(s, i - 1, i - 1) \in Whitespace) })

\* variant: the rule for short questions is applied before the keywords
should_use_ai_short_first(question) ==
  LET question_lower == lower(question) IN
  IF /\ word_count(question) <= 3
     /\ ~ContainsAny(question_lower, {"quem", "o que", "como"})
  THEN FALSE
  ELSE IF ContainsAny(question_lower, complex_keywords) THEN TRUE
  ELSE IF word_count(question) > 15 THEN TRUE
  ELSE FALSE

\* variant: a question of fifteen words already counts as long
should_use_ai_from_fifteen(question) ==
  LET question_lower == lower(question) IN
  IF ContainsAny(question_lower, complex_keywords) THEN TRUE
  ELSE IF /\ word_count(question) <= 3
          /\ ~ContainsAny(question_lower, {"quem", "o que", "como"})
  THEN FALSE
  ELSE IF word_count(question) >= 15 THEN TRUE
  ELSE FALSE

should_use_ai(question) ==
  LET question_lower == lower(question) IN
  IF ContainsAny(question_lower, complex_keywords) THEN TRUE
  ELSE IF /\ word_count(question) <= 3
          /\ ~ContainsAny(question_lower, {"quem", "o que", "como"})
  THEN FALSE
  ELSE IF word_count(question) > 15 THEN TRUE
  ELSE FALSE

fallback_indicators ==
  { "não encontrei", "não entendi", "não consegui", "tente reformular",
    "não sei", QuestionSign }

\* variant: the phrases are looked for in the response as it is written
should_fallback_to_ai_as_written(response) ==
  ContainsAny(response, fallback_indicators)

should_fallback_to_ai(response) ==
  ContainsAny(lower(response), fallback_indicators)

----------------------------------------------------------------------------
(* QuestionProcessor._extract_product_name *)

\* a str, where the function may return None instead
Str(s) == [tag |-> "str", value |-> s]

\* s.split(): the maximal runs of characters that are not white space
RECURSIVE split(_)
split(s) ==
  IF s = "" THEN <<>>
  ELSE IF SubSeq(s, 1, 1) \in Whitespace THEN split(SubSeq(s, 2, Len(s)))
  ELSE LET ends == { k \in 1..Len(s) : SubSeq(s, k, k) \in Whitespace }
           e == IF ends = {} THEN Len(s) + 1 ELSE Min(ends)
       IN <<SubSeq(s, 1, e - 1)>> \o split(SubSeq(s, e + 1, Len(s)))

keywords ==
  { "quantidade", "total", "buscar", "procurar", "produto", "de", "do", "da" }

\* variant: words of two characters are kept
extract_product_name_from_two(text) ==
  LET words == split(lower(text))
      filtered_words ==
        SelectSeq(words, LAMBDA w : w \notin keywords /\ Len(w) >= 2)
  IN IF filtered_words # <<>> THEN Str(join(filtered_words, " ")) ELSE None

\* ' '.join(w for w in text.lower().split()
\*          if w not in keywords and len(w) > 2), or None
extract_product_name(text) ==
  LET words == split(lower(text))
      filtered_words ==
        SelectSeq(words, LAMBDA w : w \notin keywords /\ Len(w) > 2)
  IN IF filtered_words # <<>> THEN Str(join(filtered_words, " ")) ELSE None

----------------------------------------------------------------------------
(* The completion client and the message handling of app.py *)

\* what the completion service returns when it answers
Completion == "  Pelos dados, o OTD ficou abaixo do target.  "

\* GroqClient.generate_response: the stripped completion, and an apology
\* when the request raises
generate_response(api) ==
  IF api = "error"
  THEN CrossMark \o " Desculpe, não consegui processar sua pergunta no momento."
  ELSE strip(Completion)

\* GroqClient.analyze_with_data: generate_response with the data as context
analyze_with_data(api) == generate_response(api)

\* generate_ai_response(question, previous): the text it returns and the
\* methods of the completion client it called
generate_ai_response(groq, api, exists, self, previous) ==
  IF ~groq
  THEN [text |-> IF previous # "" THEN previous
                 ELSE CrossMark \o " IA não disponível.",
        calls |-> <<>>]
  ELSE LET analyzer == IF ~exists THEN None
                       ELSE IF self.analyzer_main # None
                       THEN self.analyzer_main
                       ELSE self.analyzer_secondary
       IN IF analyzer # None
          THEN [text |-> RobotFace \o " " \o analyze_with_data(api),
                calls |-> <<"analyze_with_data">>]
          ELSE [text |-> RobotFace \o " " \o generate_response(api),
                calls |-> <<"generate_response">>]

\* str(e) of an exception that escaped the router
exception_text(e) ==
  IF e = "IndexError" THEN "index 1 is out of bounds for axis 0 with size 1"
  ELSE "'NoneType' object has no attribute 'get_column_names'"

\* what app.py did with one message: the text it answers with, the calls of
\* the completion client, what the router returned and the router afterwards
Handled(response, calls, router, self) ==
  [response |-> response, calls |-> calls, router |-> router, self |-> self]

\* variant: the completion client is asked for complex questions only
answer_text_complex_only(groq, api, exists, use_ai_for_complex, o, response) ==
  IF use_ai_for_complex
  THEN LET g == generate_ai_response(groq, api, exists, o.self, response)
       IN Handled(g.text, g.calls, o.ret, o.self)
  ELSE Handled(response, <<>>, o.ret, o.self)

\* process_question of app.py from the text of the router's answer on: the
\* fallback to the completion client
answer_text(groq, api, exists, use_ai_for_complex, o, response) ==
  IF should_fallback_to_ai(response) \/ use_ai_for_complex
  THEN LET g == generate_ai_response(groq, api, exists, o.self, response)
       IN Handled(g.text, g.calls, o.ret, o.self)
  ELSE Handled(response, <<>>, o.ret, o.self)

\* process_question of app.py from the return of the router on: an exception
\* that escaped the router is caught and reported
answer_routed(groq, api, exists, use_ai_for_complex, o) ==
  IF o.ret.tag = "raised"
  THEN Handled(CrossMark \o " Erro ao processar sua mensagem: "
                 \o exception_text(o.ret.error),
               <<>>, o.ret, o.self)
  ELSE answer_text(groq, api, exists, use_ai_for_complex, o, text_of(o.ret))

\* variant: a complex question goes to the completion client without the
\* router being asked
app_process_question_ai_first(groq, api, exists, self, ranges, rem, message_text) ==
  IF exists /\ is_ready(self)
  THEN IF groq /\ should_use_ai(message_text)
       THEN Handled(generate_ai_response(groq, api, exists, self, "").text,
                    generate_ai_response(groq, api, exists, self, "").calls,
                    None, self)
       ELSE answer_routed(groq, api, exists, FALSE,
                          process_question(self, ranges, rem, message_text))
  ELSE IF exists
  THEN Handled(Hourglass \o " Ainda estou carregando os dados. "
                 \o "Tente novamente em instantes.",
               <<>>, None, self)
  ELSE Handled(CrossMark \o " Bot não está configurado corretamente.",
               <<>>, None, self)

\* variant: while the router is missing or loading, complex questions are
\* handed to the completion client
app_process_question_ai_when_loading(groq, api, exists, self, ranges, rem, message_text) ==
  IF exists /\ is_ready(self)
  THEN answer_routed(groq, api, exists, groq /\ should_use_ai(message_text),
                     process_question(self, ranges, rem, message_text))
  ELSE IF groq /\ should_use_ai(message_text)
  THEN Handled(generate_ai_response(groq, api, exists, self, "").text,
               generate_ai_response(groq, api, exists, self, "").calls,
               None, self)
  ELSE IF exists
  THEN Handled(Hourglass \o " Ainda estou carregando os dados. "
                 \o "Tente novamente em instantes.",
               <<>>, None, self)
  ELSE Handled(CrossMark \o " Bot não está configurado corretamente.",
               <<>>, None, self)

\* process_question(message_text) of app.py
app_process_question(groq, api, exists, self, ranges, rem, message_text) ==
  IF exists /\ is_ready(self)
  THEN answer_routed(groq, api, exists, groq /\ should_use_ai(message_text),
                     process_question(self, ranges, rem, message_text))
  ELSE IF exists
  THEN Handled(Hourglass \o " Ainda estou carregando os dados. "
                 \o "Tente novamente em instantes.",
               <<>>, None, self)
  ELSE Handled(CrossMark \o " Bot não está configurado corretamente.",
               <<>>, None, self)

----------------------------------------------------------------------------
(* Inputs *)

\* the questions of the life-cycle specification
Questions ==
  { "qualquer coisa", "ajuda", "Colunas", "!Indicadores", "!Sobras",
    "recarregar", "Explicar OTD", "explicar todos", "Quais indicadores existem?",
    "atualizar ajuda" }

\* the phrases the dispatch specification builds its questions from
Phrases ==
  { "", "quais indicadores", "Listar Indicadores", "todos os indicadores",
    "explica", "Explicar todos", "lógica", "ajuda", "colunas", "!Indicadores",
    "!Leftover", "recarregar", "OTD", "backlog total", "qualquer coisa" }

DispatchQuestions == { a \o " " \o b : a \in Phrases, b \in Phrases }

Remotes ==
  { r \in [ SheetKeys \cup {"Filter!B1"} ->
              DataAnswers \cup LogicAnswers \cup CellAnswers ] :
      /\ r["main"] \in DataAnswers
      /\ r["secondary"] \in DataAnswers
      /\ r["logica"] \in LogicAnswers
      /\ r["Filter!B1"] \in CellAnswers }

LoadedAnswer ==
  Values(<< <<"Indicador", "Target", "Real">>,
            <<"OTD", "95", "91">>,
            <<"Backlog", "100">> >>)

\* sheet_ranges as SheetsClient.__init__ leaves it, and after app.py
\* registered the key "logica"
RangeConfigs == { {"main", "secondary"}, {"main", "secondary", "logica"} }

----------------------------------------------------------------------------
(* The state machine *)

\* the request threads of the web server
Threads == {1, 2}

\* the local variables of a request thread that runs process_question
NoLocals == [question |-> "", df |-> None, seen_main |-> "unread",
             sections |-> <<>>, ret |-> None]

Idle == [phase |-> "idle", op |-> "none", arg |-> "", pre |-> Blank,
         ret |-> None, stage |-> "none", evaluated |-> <<>>, fetched |-> <<>>]

Done(op, arg, pre, o) ==
  [phase |-> "done", op |-> op, arg |-> arg, pre |-> pre, ret |-> o.ret,
   stage |-> o.stage, evaluated |-> o.evaluated, fetched |-> o.fetched]

\* no message is being answered by app.py
NoReply == [phase |-> "idle"]

\* the router on its own: created, without the completion client, and no
\* function applied apart from it
RouterOnly ==
  /\ question_processor = TRUE
  /\ groq_client = FALSE
  /\ groq_api = "ok"
  /\ reply = NoReply
  /\ input = None
  /\ output = None

Install(self) ==
  /\ analyzer_main' = self.analyzer_main
  /\ analyzer_secondary' = self.analyzer_secondary
  /\ is_ready_main' = self.is_ready_main
  /\ is_ready_secondary' = self.is_ready_secondary
  /\ flips' = IF is_ready(self) # is_ready(Self) /\ flips < MaxFlips
              THEN flips + 1 ELSE flips

\* QuestionProcessor(sheets_client): __init__ ends with _load_data()
Init ==
  /\ sheet_ranges \in RangeConfigs
  /\ remote \in Remotes
  /\ LET self == load_data(Blank, sheet_ranges, remote)
     IN /\ analyzer_main = self.analyzer_main
        /\ analyzer_secondary = self.analyzer_secondary
        /\ is_ready_main = self.is_ready_main
        /\ is_ready_secondary = self.is_ready_secondary
  /\ call = Idle
  /\ flips = 0
  /\ pc = [t \in Threads |-> "idle"]
  /\ loc = [t \in Threads |-> NoLocals]
  /\ RouterOnly

\* a chat message is handed to process_question
Process(q) ==
  /\ call.phase = "idle"
  /\ LET o == process_question(Self, sheet_ranges, remote, q)
     IN /\ Install(o.self)
        /\ call' = Done("process", q, Self, o)
  /\ UNCHANGED <<sheet_ranges, remote, pc, loc, appVars, funVars>>

\* refresh_data(sheet) called directly
Refresh(sheet) ==
  /\ call.phase = "idle"
  /\ LET r == refresh_data(Self, sheet_ranges, remote, sheet)
     IN /\ Install(r.self)
        /\ call' = Done("refresh", sheet, Self,
                        Outcome(r.ret, "refresh", <<>>, r.fetched, r.self))
  /\ UNCHANGED <<sheet_ranges, remote, pc, loc, appVars, funVars>>

\* the caller takes the result and the next call can start
Deliver ==
  /\ call.phase = "done"
  /\ call' = Idle
  /\ UNCHANGED <<analyzer_main, analyzer_secondary, is_ready_main,
                 is_ready_secondary, sheet_ranges, remote, flips, pc, loc,
                 appVars, funVars>>

\* the spreadsheet, or the service's availability, changes between calls
SheetEdit(key, ans) ==
  /\ call.phase = "idle"
  /\ ans # remote[key]
  /\ remote' = [remote EXCEPT ![key] = ans]
  /\ UNCHANGED <<analyzer_main, analyzer_secondary, is_ready_main,
                 is_ready_secondary, sheet_ranges, call, flips, pc, loc,
                 appVars, funVars>>

Next ==
  \/ \E q \in Questions : Process(q)
  \/ \E sheet \in RefreshScopes : Refresh(sheet)
  \/ Deliver
  \/ \E key \in SheetKeys : \E ans \in Answers(key) : SheetEdit(key, ans)
  \/ \E ans \in CellAnswers : SheetEdit("Filter!B1", ans)

Spec == Init /\ [][Next]_vars

\* one question against a freshly constructed router
NextDispatch == \E q \in DispatchQuestions : Process(q)

SpecDispatch == Init /\ [][NextDispatch]_vars

\* the commands _get_help_message lists between back-ticks
HelpCommands ==
  { "!Indicadores", "Explicar [Indicador]", "Quais indicadores existem?",
    "!Leftover", "!Sobras", "!Ofensores", "!Fora do target", "status",
    "recarregar", "colunas", "ajuda" }

\* one listed command, typed as listed, against a freshly constructed router
NextHelp == \E q \in HelpCommands : Process(q)

SpecHelp == Init /\ [][NextHelp]_vars

----------------------------------------------------------------------------
(* The single-sheet router on its own *)

\* the commands of its help message, as written, in other cases and with
\* arguments, and other questions
SingleQuestions ==
  { "quantidade total", "quantidade total smartphone", "top 10", "top 5",
    "buscar notebook", "estatísticas quantidade", "resumo por produto",
    "colunas", "prévia", "recarregar", "ajuda", "Resumo Por Produto",
    "agrupar por produto", "resumo", "qualquer coisa" }

\* QuestionProcessor(sheets_client) of the single-sheet router
InitSingle ==
  /\ sheet_ranges \in RangeConfigs
  /\ remote \in Remotes
  /\ LET self == single_load_data(Blank, sheet_ranges, remote)
     IN /\ analyzer_main = self.analyzer_main
        /\ analyzer_secondary = self.analyzer_secondary
        /\ is_ready_main = self.is_ready_main
        /\ is_ready_secondary = self.is_ready_secondary
  /\ call = Idle
  /\ flips = 0
  /\ pc = [t \in Threads |-> "idle"]
  /\ loc = [t \in Threads |-> NoLocals]
  /\ RouterOnly

\* the call has returned and the router is as the call left it
Returned(op, q, o) ==
  /\ Install(o.self)
  /\ call' = Done(op, q, Self, o)

\* a chat message is handed to process_question of the single-sheet router
ProcessSingle(q) ==
  /\ call.phase = "idle"
  /\ Returned("single", q,
              single_process_question(Self, sheet_ranges, remote, q))
  /\ UNCHANGED <<sheet_ranges, remote, pc, loc, appVars, funVars>>

NextSingle ==
  \/ \E q \in SingleQuestions : ProcessSingle(q)
  \/ Deliver
  \/ \E ans \in Answers("main") : SheetEdit("main", ans)

SpecSingle == InitSingle /\ [][NextSingle]_vars

----------------------------------------------------------------------------
(* app.py: initialize_clients and the messages it answers *)

AppQuestions ==
  { "qualquer coisa", "ajuda", "quem sou eu", "Explicar OTD",
    "explicar todos", "como explicar todos", "Quais indicadores existem?",
    "!Indicadores", "recarregar", "por que recarregar" }

AppAnswers == { HttpError, LoadedAnswer }

\* initialize_clients: the completion client exists when the key is set;
\* the router exists unless SheetsClient() raised, and is built after the
\* key "logica" was registered
InitApp ==
  /\ sheet_ranges = {"main", "secondary", "logica"}
  /\ remote \in { r \in Remotes :
                    /\ r["main"] \in AppAnswers
                    /\ r["secondary"] \in AppAnswers
                    /\ r["Filter!B1"] = Values(<< <<"03/11">> >>) }
  /\ question_processor \in BOOLEAN
  /\ LET self == IF question_processor
                 THEN load_data(Blank, sheet_ranges, remote) ELSE Blank
     IN /\ analyzer_main = self.analyzer_main
        /\ analyzer_secondary = self.analyzer_secondary
        /\ is_ready_main = self.is_ready_main
        /\ is_ready_secondary = self.is_ready_secondary
  /\ groq_client \in BOOLEAN
  /\ groq_api \in {"ok", "error"}
  /\ reply = NoReply
  /\ call = Idle
  /\ flips = 0
  /\ pc = [t \in Threads |-> "idle"]
  /\ loc = [t \in Threads |-> NoLocals]
  /\ input = None
  /\ output = None

\* the router is left as the call left it and the answer waits to be sent
Answered(q, r) ==
  /\ Install(r.self)
  /\ reply' = [phase |-> "done", question |-> q, pre |-> Self,
               api |-> groq_api, response |-> r.response,
               calls |-> r.calls, router |-> r.router]

\* a chat message is handed to process_question of app.py
Message(q) ==
  /\ reply.phase = "idle"
  /\ Answered(q, app_process_question(groq_client, groq_api,
                                      question_processor, Self, sheet_ranges,
                                      remote, q))
  /\ UNCHANGED <<sheet_ranges, remote, call, pc, loc, question_processor,
                 groq_client, groq_api, funVars>>

\* the answer is sent to the chat
Send ==
  /\ reply.phase = "done"
  /\ reply' = NoReply
  /\ UNCHANGED <<analyzer_main, analyzer_secondary, is_ready_main,
                 is_ready_secondary, sheet_ranges, remote, call, flips, pc,
                 loc, question_processor, groq_client, groq_api, funVars>>

\* the spreadsheet service starts or stops answering for a data tab
ServiceChange(key, ans) ==
  /\ reply.phase = "idle"
  /\ ans # remote[key]
  /\ remote' = [remote EXCEPT ![key] = ans]
  /\ UNCHANGED <<analyzer_main, analyzer_secondary, is_ready_main,
                 is_ready_secondary, sheet_ranges, call, flips, pc, loc,
                 appVars, funVars>>

\* the completion service starts or stops failing
ApiChange ==
  /\ reply.phase = "idle"
  /\ groq_api' = IF groq_api = "ok" THEN "error" ELSE "ok"
  /\ UNCHANGED <<analyzer_main, analyzer_secondary, is_ready_main,
                 is_ready_secondary, sheet_ranges, remote, call, flips, pc,
                 loc, question_processor, groq_client, reply, funVars>>

NextApp ==
  \/ \E q \in AppQuestions : Message(q)
  \/ Send
  \/ \E key \in {"main", "secondary"} : \E ans \in AppAnswers :
        ServiceChange(key, ans)
  \/ ApiChange

SpecApp == InitApp /\ [][NextApp]_vars

\* app.py together with direct calls of the router it built: one call or
\* one message at a time
DirectQuestions == { "qualquer coisa", "recarregar", "Atualizar dados", "ajuda" }

DirectProcess(q) ==
  /\ question_processor /\ reply.phase = "idle"
  /\ Process(q)

DirectRefresh(sheet) ==
  /\ question_processor /\ reply.phase = "idle"
  /\ Refresh(sheet)

ChatMessage(q) ==
  /\ call.phase = "idle"
  /\ Message(q)

NextRouterApp ==
  \/ \E q \in AppQuestions : ChatMessage(q)
  \/ Send
  \/ \E q \in DirectQuestions : DirectProcess(q)
  \/ \E sheet \in RefreshScopes : DirectRefresh(sheet)
  \/ Deliver
  \/ \E key \in {"main", "secondary"} : \E ans \in AppAnswers :
        ServiceChange(key, ans)
  \/ ApiChange

SpecRouterApp == InitApp /\ [][NextRouterApp]_vars

----------------------------------------------------------------------------
(* The two triggers applied on their own *)

\* the filler words appended to a question
MaxFiller == 16

\* how the questions open: with and without a keyword, in either case, with
\* blanks of several kinds
Openers ==
  { "", "ok", "quem sou eu", "QUEM sou eu", "o que", "O Que É isso",
    "Por Que", "compare", "Como", "status  do \tsite", "me ajude",
    "Recarregar", "qual a DIFERENÇA", "bom dia pessoal tudo bem" }

\* an opener followed by n filler words
Padded(opener, n) == opener \o times(" dado", n)

UseAiInputs ==
  { [kind |-> "question", text |-> Padded(o, n)] :
      o \in Openers, n \in 0..MaxFiller }

\* responses of the router, of the completion service and of app.py
FallbackTexts ==
  { text_of(NotReady), text_of(LogicNotLoaded), text_of(WhichIndicator),
    text_of(HelpMessage), text_of(get_default_response("oi")),
    text_of([tag |-> "no_sheet"]),
    text_of([tag |-> "explanation", nome |-> "OTD",
             logica |-> "Ainda NÃO SEI ao certo"]),
    text_of([tag |-> "explanation", nome |-> "OTD",
             logica |-> "entregas no prazo"]),
    text_of([tag |-> "indicator_list", names |-> <<"OTD", "Não Encontrei">>]),
    "", "?", QuestionSign, "Tente Reformular a pergunta", "nao sei",
    "não  sei", "não", "NÃO ENTENDI", "eu não consegui", "Não encontrado" }

FallbackInputs == { [kind |-> "response", text |-> t] : t \in FallbackTexts }

\* texts a product name is taken from: with stop-words and short words, in
\* either case, with blanks of several kinds, and with nothing left over
ExtractTexts ==
  { "buscar o notebook da empresa", "Buscar Notebook DA Empresa", "de do da",
    "", "  quantidade\ttotal  de   canetas azuis ", "procurar produto",
    "oi eu", "abc de fgh", "PRODUTO Caneta", "total\nde mouse sem fio",
    "QUANTIDADE TOTAL", "caneta" }

ExtractInputs == { [kind |-> "text", text |-> t] : t \in ExtractTexts }

InitHeuristics ==
  /\ sheet_ranges = {"main", "secondary"}
  /\ remote = [k \in SheetKeys \cup {"Filter!B1"} |-> HttpError]
  /\ analyzer_main = None /\ analyzer_secondary = None
  /\ is_ready_main = FALSE /\ is_ready_secondary = FALSE
  /\ call = Idle
  /\ flips = 0
  /\ pc = [t \in Threads |-> "idle"]
  /\ loc = [t \in Threads |-> NoLocals]
  /\ question_processor = FALSE
  /\ groq_client = TRUE
  /\ groq_api = "ok"
  /\ reply = NoReply
  /\ input \in UseAiInputs \cup FallbackInputs \cup ExtractInputs
  /\ output = None

Applied(op, value) == [op |-> op, value |-> value]

KeepRouter ==
  UNCHANGED <<analyzer_main, analyzer_secondary, is_ready_main,
              is_ready_secondary, sheet_ranges, remote, call, flips, pc, loc,
              appVars>>

\* groq_client.should_use_ai(message_text)
ShouldUseAi ==
  /\ input.kind = "question"
  /\ output = None
  /\ output' = Applied("should_use_ai", should_use_ai(input.text))
  /\ UNCHANGED input
  /\ KeepRouter

\* should_fallback_to_ai(response)
ShouldFallback ==
  /\ input.kind = "response"
  /\ output = None
  /\ output' = Applied("should_fallback_to_ai",
                       should_fallback_to_ai(input.text))
  /\ UNCHANGED input
  /\ KeepRouter

\* self._extract_product_name(question)
ExtractProductName ==
  /\ input.kind = "text"
  /\ output = None
  /\ output' = Applied("extract_product_name",
                       extract_product_name(input.text))
  /\ UNCHANGED input
  /\ KeepRouter

NextHeuristics == ShouldUseAi \/ ShouldFallback \/ ExtractProductName

SpecHeuristics == InitHeuristics /\ [][NextHeuristics]_vars

----------------------------------------------------------------------------
(* The queries of the analyzer and the table formatter applied on their own *)

\* the rows of a table that is summarised, averaged, formatted
MaxSummaryRows == 3
MaxAverageRows == 2
MaxTableRows == 2

\* the sequences over S of 1 to n elements
SeqsUpTo(S, n) == UNION { [1..k -> S] : k \in 1..n }

SummaryRows == { <<key, qty>> : key \in {"Caneta", "Caderno", "Lapis"},
                                qty \in {3, 5, 10} }

SummaryInputs ==
  { [kind |-> "summary", df |-> DataFrame(<<"Produto", "quantidade">>, rws)] :
      rws \in SeqsUpTo(SummaryRows, MaxSummaryRows) }

AverageRows == { <<key, preco, peso>> : key \in {"Caneta", "Caderno"},
                                        preco \in {0, 2}, peso \in {-1, 0, 1} }

\* filter_column and filter_value: no filter, one that matches "Caneta"
\* whatever the case, one that matches no row
Filters ==
  { [column |-> "", value |-> ""], [column |-> "Produto", value |-> "CAN"],
    [column |-> "Produto", value |-> "borracha"] }

AverageInputs ==
  { [kind |-> "average", filter |-> f,
     df |-> DataFrame(<<"Produto", "preco", "peso">>, rws)] :
      f \in Filters, rws \in SeqsUpTo(AverageRows, MaxAverageRows) }

ColumnLists ==
  { <<"Indicador", "Target", "Real">>, <<"SKU", "Nome Produto">>,
    <<"id", "ITEM">>, <<"Data", "quantidade">>, <<"name">> }

TableCells == { "", NaN, "entregas no prazo" }

TableInputs ==
  UNION { { [kind |-> "table", df |-> DataFrame(cols, rws)] :
              rws \in SeqsUpTo([1..Len(cols) -> TableCells], MaxTableRows) } :
          cols \in ColumnLists }

InitAnalyzer ==
  /\ sheet_ranges = {"main", "secondary"}
  /\ remote = [k \in SheetKeys \cup {"Filter!B1"} |-> HttpError]
  /\ analyzer_main = None /\ analyzer_secondary = None
  /\ is_ready_main = FALSE /\ is_ready_secondary = FALSE
  /\ call = Idle
  /\ flips = 0
  /\ pc = [t \in Threads |-> "idle"]
  /\ loc = [t \in Threads |-> NoLocals]
  /\ question_processor = FALSE
  /\ groq_client = FALSE
  /\ groq_api = "ok"
  /\ reply = NoReply
  /\ input \in SummaryInputs \cup AverageInputs \cup TableInputs
  /\ output = None

\* analyzer.get_summary_by_product('quantidade')
Summarize ==
  /\ input.kind = "summary"
  /\ output = None
  /\ \E summary \in get_summary_by_product(input.df, "quantidade") :
        output' = Applied("get_summary_by_product", summary)
  /\ UNCHANGED input
  /\ KeepRouter

\* analyzer.get_weighted_average('preco', 'peso', filter_column, filter_value)
Average ==
  /\ input.kind = "average"
  /\ output = None
  /\ output' = Applied("get_weighted_average",
                       get_weighted_average(input.df, "preco", "peso",
                                            input.filter.column,
                                            input.filter.value))
  /\ UNCHANGED input
  /\ KeepRouter

\* analyzer._find_product_column()
FindProductColumn ==
  /\ input.kind = "table"
  /\ output = None
  /\ output' = Applied("find_product_column", find_product_column(input.df))
  /\ UNCHANGED input
  /\ KeepRouter

\* self._format_dataframe(df)
Format ==
  /\ input.kind = "table"
  /\ output = None
  /\ output' = Applied("format_dataframe", format_dataframe(input.df))
  /\ UNCHANGED input
  /\ KeepRouter

NextAnalyzer == Summarize \/ Average \/ FindProductColumn \/ Format

SpecAnalyzer == InitAnalyzer /\ [][NextAnalyzer]_vars

----------------------------------------------------------------------------
(* The same router under the threaded web server: app.run() serves every    *)
(* request in a thread of its own, so calls of process_question interleave *)
(* between any two reads or writes of the shared attributes.               *)

ConcQuestions == {"ajuda", "colunas", "!indicadores", "!sobras", "recarregar"}

ConcAnswers == { HttpError, LoadedAnswer }

InitConc ==
  /\ sheet_ranges = {"main", "secondary", "logica"}
  /\ remote \in { r \in Remotes :
                    /\ r["main"] \in ConcAnswers
                    /\ r["secondary"] \in ConcAnswers
                    /\ r["logica"] = HttpError
                    /\ r["Filter!B1"] = Values(<< <<"03/11">> >>) }
  /\ LET self == load_data(Blank, sheet_ranges, remote)
     IN /\ analyzer_main = self.analyzer_main
        /\ analyzer_secondary = self.analyzer_secondary
        /\ is_ready_main = self.is_ready_main
        /\ is_ready_secondary = self.is_ready_secondary
  /\ call = Idle
  /\ flips = 0
  /\ pc = [t \in Threads |-> "idle"]
  /\ loc = [t \in Threads |-> NoLocals]
  /\ RouterOnly

Goto(t, label) == pc' = [pc EXCEPT ![t] = label]
Keep == UNCHANGED <<sheet_ranges, remote, call, flips, appVars, funVars>>
KeepShared ==
  UNCHANGED <<analyzer_main, analyzer_secondary, is_ready_main,
              is_ready_secondary>>

\* a request thread enters process_question(question)
Start(t, q) ==
  /\ pc[t] = "idle"
  /\ loc' = [loc EXCEPT ![t] = [NoLocals EXCEPT !.question = q]]
  /\ Goto(t, "check_ready")
  /\ Keep /\ KeepShared

\* line 189 reads is_ready; the sub-router and the intent tests that follow
\* read no attribute of the object
CheckReady(t) ==
  /\ pc[t] = "check_ready"
  /\ IF ~is_ready_main
     THEN /\ loc' = [loc EXCEPT ![t].ret = NotReady]
          /\ Goto(t, "done")
     ELSE LET o == process_question(Self, sheet_ranges, remote,
                                    loc[t].question)
          IN CASE o.stage = "columns" ->
                    loc' = loc /\ Goto(t, "cols_main_test")
               [] o.stage = "preview" ->
                    loc' = loc /\ Goto(t, "prev_test")
               [] o.stage = "secondary" ->
                    loc' = loc /\ Goto(t, "sec_test")
               [] o.stage = "refresh" ->
                    loc' = loc /\ Goto(t, "main_fetch")
               [] OTHER ->
                    loc' = [loc EXCEPT ![t].ret = o.ret] /\ Goto(t, "done")
  /\ Keep /\ KeepShared

\* the test `if self.analyzer_...:` of a handler
TestAnalyzer(t) ==
  /\ pc[t] \in {"cols_main_test", "cols_sec_test", "prev_test", "sec_test"}
  /\ LET a == IF pc[t] \in {"cols_main_test", "prev_test"}
              THEN analyzer_main ELSE analyzer_secondary
         seen == IF pc[t] \in {"cols_main_test", "prev_test"}
                 THEN (IF a = None THEN "absent" ELSE "present")
                 ELSE loc[t].seen_main
     IN CASE pc[t] = "cols_main_test" ->
               /\ loc' = [loc EXCEPT ![t].seen_main = seen]
               /\ Goto(t, IF a = None THEN "cols_sec_test" ELSE "cols_main_use")
          [] pc[t] = "cols_sec_test" ->
               IF a # None
               THEN loc' = loc /\ Goto(t, "cols_sec_use")
               ELSE /\ loc' = [loc EXCEPT ![t].ret =
                                 IF loc[t].sections = <<>>
                                 THEN [tag |-> "no_sheet"]
                                 ELSE [tag |-> "columns",
                                       sections |-> loc[t].sections]]
                    /\ Goto(t, "done")
          [] pc[t] = "prev_test" ->
               IF a = None
               THEN /\ loc' = [loc EXCEPT ![t].seen_main = seen,
                                          ![t].ret = [tag |-> "main_unavailable"]]
                    /\ Goto(t, "done")
               ELSE /\ loc' = [loc EXCEPT ![t].seen_main = seen]
                    /\ Goto(t, "prev_cell")
          [] pc[t] = "sec_test" ->
               IF a = None
               THEN /\ loc' = [loc EXCEPT ![t].ret =
                                 [tag |-> "secondary_unavailable"]]
                    /\ Goto(t, "done")
               ELSE loc' = loc /\ Goto(t, "sec_use")
  /\ Keep /\ KeepShared

\* _show_data_preview asks the service for the cell Filter!B1
ReadCell(t) ==
  /\ pc[t] = "prev_cell"
  /\ loc' = [loc EXCEPT ![t].df = get_cell_value(remote, "Filter!B1")]
  /\ Goto(t, "prev_use")
  /\ Keep /\ KeepShared

\* the second read of the attribute: self.analyzer_....method(); on None the
\* call raises AttributeError, which no handler catches
UseAnalyzer(t) ==
  /\ pc[t] \in {"cols_main_use", "cols_sec_use", "prev_use", "sec_use"}
  /\ LET a == IF pc[t] \in {"cols_main_use", "prev_use"}
              THEN analyzer_main ELSE analyzer_secondary
     IN IF a = None
        THEN /\ loc' = [loc EXCEPT ![t].ret = Raised("AttributeError")]
             /\ Goto(t, "done")
        ELSE CASE pc[t] = "cols_main_use" ->
                    /\ loc' = [loc EXCEPT ![t].sections =
                                 << [aba |-> "principal",
                                     columns |-> get_column_names(a)] >>]
                    /\ Goto(t, "cols_sec_test")
               [] pc[t] = "cols_sec_use" ->
                    /\ loc' = [loc EXCEPT ![t].ret =
                                 [tag |-> "columns",
                                  sections |-> loc[t].sections \o
                                    << [aba |-> "secundária",
                                        columns |-> get_column_names(a)] >>]]
                    /\ Goto(t, "done")
               [] pc[t] = "prev_use" ->
                    /\ loc' = [loc EXCEPT ![t].ret =
                                 [tag |-> "preview_main",
                                  b1_value |-> IF loc[t].df = None
                                               THEN "N/A" ELSE loc[t].df.value,
                                  df |-> get_data_preview(a, 24)]]
                    /\ Goto(t, "done")
               [] pc[t] = "sec_use" ->
                    /\ loc' = [loc EXCEPT ![t].ret =
                                 [tag |-> "preview_secondary",
                                  df |-> get_data_preview(a, 24)]]
                    /\ Goto(t, "done")
  /\ Keep /\ KeepShared

\* _load_main_data / _load_secondary_data: df = get_all_data(key)
Fetch(t) ==
  /\ pc[t] \in {"main_fetch", "sec_fetch"}
  /\ loc' = [loc EXCEPT ![t].df =
               get_all_data(sheet_ranges, remote,
                            IF pc[t] = "main_fetch" THEN "main" ELSE "secondary")]
  /\ Goto(t, IF pc[t] = "main_fetch" THEN "main_set_analyzer"
             ELSE "sec_set_analyzer")
  /\ Keep /\ KeepShared

\* the first of the two assignments of a loader: self.analyzer_... = ...
SetAnalyzer(t) ==
  /\ pc[t] \in {"main_set_analyzer", "sec_set_analyzer"}
  /\ LET df == loc[t].df
         a == IF df = None \/ df_empty(df) THEN None ELSE ShopeeDataAnalyzer(df)
     IN IF pc[t] = "main_set_analyzer"
        THEN /\ analyzer_main' = a
             /\ Goto(t, "main_set_ready")
             /\ UNCHANGED analyzer_secondary
        ELSE /\ analyzer_secondary' = a
             /\ Goto(t, "sec_set_ready")
             /\ UNCHANGED analyzer_main
  /\ UNCHANGED <<is_ready_main, is_ready_secondary, loc>>
  /\ Keep

\* the second assignment: self.is_ready_... = ...
SetReady(t) ==
  /\ pc[t] \in {"main_set_ready", "sec_set_ready"}
  /\ LET ok == ~(loc[t].df = None \/ df_empty(loc[t].df))
     IN IF pc[t] = "main_set_ready"
        THEN /\ is_ready_main' = ok
             /\ Goto(t, "sec_fetch")
             /\ UNCHANGED is_ready_secondary
        ELSE /\ is_ready_secondary' = ok
             /\ Goto(t, "status")
             /\ UNCHANGED is_ready_main
  /\ UNCHANGED <<analyzer_main, analyzer_secondary, loc>>
  /\ Keep

\* refresh_data builds its status from the two flags
Status(t) ==
  /\ pc[t] = "status"
  /\ loc' = [loc EXCEPT ![t].ret =
               [tag |-> "refresh_status",
                lines |-> << IF is_ready_main THEN CheckMark \o " Aba principal OK"
                             ELSE CrossMark \o " Aba principal falhou",
                             IF is_ready_secondary THEN CheckMark \o " Aba secundária OK"
                             ELSE WarningSign \o " Aba secundária indisponível" >>]]
  /\ Goto(t, "done")
  /\ Keep /\ KeepShared

\* process_question has returned or raised; the thread ends
Return(t) ==
  /\ pc[t] = "done"
  /\ loc' = [loc EXCEPT ![t] = NoLocals]
  /\ Goto(t, "idle")
  /\ Keep /\ KeepShared

\* the spreadsheet or the service changes while requests are served
SheetEditConc(key, ans) ==
  /\ ans # remote[key]
  /\ remote' = [remote EXCEPT ![key] = ans]
  /\ UNCHANGED <<sheet_ranges, call, flips, pc, loc, appVars, funVars>>
  /\ KeepShared

NextConc ==
  \/ \E t \in Threads : \E q \in ConcQuestions : Start(t, q)
  \/ \E t \in Threads : CheckReady(t)
  \/ \E t \in Threads : TestAnalyzer(t)
  \/ \E t \in Threads : ReadCell(t)
  \/ \E t \in Threads : UseAnalyzer(t)
  \/ \E t \in Threads : Fetch(t)
  \/ \E t \in Threads : SetAnalyzer(t)
  \/ \E t \in Threads : SetReady(t)
  \/ \E t \in Threads : Status(t)
  \/ \E t \in Threads : Return(t)
  \/ \E key \in {"main", "secondary"} : \E ans \in ConcAnswers :
        SheetEditConc(key, ans)

SpecConc == InitConc /\ [][NextConc]_vars

----------------------------------------------------------------------------
(* Vocabulary of the properties *)

SeqRange(q) == { q[i] : i \in 1..Len(q) }

\* a process_question call has returned (or raised) and is not yet delivered
Processed == call.phase = "done" /\ call.op = "process"

\* the router was Ready / Degraded when the call started
WasReady == call.pre.is_ready_main
WasDegraded == ~call.pre.is_ready_main

\* what a fetch of the key yields now: a frame with at least one row
Loadable(key) ==
  LET df == get_all_data(sheet_ranges, remote, key)
  IN df # None /\ ~df_empty(df)

\* the call fetched the key
Fetched(key) == key \in SeqRange(call.fetched)

Asked == lower(call.arg)

----------------------------------------------------------------------------
(* C1 *)

\* C1: whenever the primary source is not ready, process(question) returns
\* the fixed not-ready message whatever the text is; no stage of the dispatch
\* is evaluated, nothing is fetched and nothing is reloaded.
C1_DegradedShortCircuit ==
  (Processed /\ WasDegraded) =>
     /\ call.ret = NotReady
     /\ call.evaluated = <<>>
     /\ call.fetched = <<>>
     /\ Self = call.pre

\* a reload request, with the secondary tab loaded, answered by the not-ready
\* message
C1_Witness ==
  /\ Processed /\ WasDegraded
  /\ call.pre.is_ready_secondary
  /\ Contains(Asked, "recarregar")
  /\ call.ret = NotReady

----------------------------------------------------------------------------
(* C2 *)

\* C2: process(questionText) returns a text for every input in every
\* reachable router state; no exception escapes it.
C2_NeverRaises == Processed => call.ret.tag # "raised"

----------------------------------------------------------------------------
(* C3 *)

StageOrder ==
  <<"subrouter", "help", "columns", "preview", "secondary", "refresh",
    "default">>

\* the trigger of each stage on the question as it was asked
StageMatches(stage, question) ==
  LET low == lower(question) IN
  CASE stage = "subrouter" ->
         ListAllTrigger(low) \/ ExplainAllTrigger(low) \/ ExplainKeyword(low)
    [] stage = "help"      -> \E w \in {"help", "comandos", "ajuda"} : Contains(low, w)
    [] stage = "columns"   ->
         \E w \in {"colunas", "columns", "campos", "fields"} : Contains(low, w)
    [] stage = "preview"   ->
         \E w \in {"!indicadores", "!indicador", "!performance", "!table"} :
            Contains(low, w)
    [] stage = "secondary" -> \E w \in {"!sobras", "!leftover"} : Contains(low, w)
    [] stage = "refresh"   ->
         \E w \in {"recarregar", "atualizar", "refresh", "reload"} :
            Contains(low, w)
    [] OTHER               -> TRUE

FirstMatch(question) ==
  CHOOSE i \in 1..Len(StageOrder) :
    /\ StageMatches(StageOrder[i], question)
    /\ \A j \in 1..(i - 1) : ~StageMatches(StageOrder[j], question)

\* C3: in Ready state the stages are evaluated in the order sub-router, help,
\* list-columns, primary-preview, secondary-preview, refresh, default; the
\* outcome is that of the first stage that matches and no later stage is
\* evaluated or run (only the refresh stage reloads anything).
C3_FirstMatchWins ==
  (Processed /\ WasReady) =>
     LET k == FirstMatch(call.arg) IN
     /\ call.stage = StageOrder[k]
     /\ call.evaluated = SubSeq(StageOrder, 1, k)
     /\ (call.stage = "help" => call.ret = HelpMessage)
     /\ (call.stage = "default" => call.ret = get_default_response(call.arg))
     /\ (call.stage # "refresh" =>
           /\ Self = call.pre
           /\ ~Fetched("main") /\ ~Fetched("secondary"))
     /\ (call.stage # "subrouter" => ~Fetched("logica"))

\* a text that matches both help and refresh: help answers, nothing reloads
C3_Witness ==
  /\ Processed /\ WasReady
  /\ StageMatches("help", call.arg) /\ StageMatches("refresh", call.arg)
  /\ ~StageMatches("subrouter", call.arg)
  /\ call.ret = HelpMessage
  /\ call.fetched = <<>>

----------------------------------------------------------------------------
(* C4 *)

HasListPhrase(low) ==
  \/ Contains(low, "quais indicadores")
  \/ Contains(low, "listar indicadores")
  \/ Contains(low, "todos os indicadores")

----------------------------------------------------------------------------
(* C5 *)

LogicFrame == get_all_data(sheet_ranges, remote, "logica")

\* the text reaches the explain-one branch
InExplainOne ==
  ~ListAllTrigger(Asked) /\ ~ExplainAllTrigger(Asked) /\ ExplainKeyword(Asked)

\* rows whose indicator name occurs in the text, case-insensitively
NameHits ==
  { i \in 1..Len(LogicFrame.rows) :
      /\ LogicFrame.rows[i][1] # NaN
      /\ Contains(Asked, lower(LogicFrame.rows[i][1])) }

\* the same, leaving out rows whose name cell is the empty string
NamedHits == { i \in NameHits : LogicFrame.rows[i][1] # "" }

Least(S) == CHOOSE i \in S : \A j \in S : i <= j

ExplanationOf(i) ==
  [tag |-> "explanation", nome |-> LogicFrame.rows[i][1],
   logica |-> LogicFrame.rows[i][2]]

\* C5: in the explain-one branch, with the two-column logic sheet loaded, the
\* response is the explanation of the first row in table order whose
\* indicator name occurs in the text, and the prompt asking which indicator
\* when no name occurs; without a keyword the sub-router yields nothing.
\* (An empty name cell may or may not count as a name: either reading of
\* "first row" is accepted.)
C5_ExplainFirstMatch ==
  (Processed /\ WasReady /\ Loadable("logica")
     /\ Len(LogicFrame.columns) = 2) =>
     /\ InExplainOne =>
          IF NamedHits # {}
          THEN call.ret \in { ExplanationOf(Least(NameHits)),
                              ExplanationOf(Least(NamedHits)) }
          ELSE \/ call.ret = WhichIndicator
               \/ NameHits # {} /\ call.ret = ExplanationOf(Least(NameHits))
     /\ (~ExplainKeyword(Asked) /\ ~ListAllTrigger(Asked)
           /\ ~ExplainAllTrigger(Asked)) => call.stage # "subrouter"

----------------------------------------------------------------------------
(* C6 *)

SubrouterTriggered ==
  ListAllTrigger(Asked) \/ ExplainAllTrigger(Asked) \/ ExplainKeyword(Asked)

\* C6: whenever a branch of the indicator sub-router is triggered and the
\* fetch of the logic sheet fails or yields an empty table, process() returns
\* the "could not load the logic sheet" message; it does not fall through to
\* the other intents or to the default response.
C6_LogicSheetFailureReported ==
  (Processed /\ WasReady /\ SubrouterTriggered /\ ~Loadable("logica")) =>
     /\ call.ret = LogicNotLoaded
     /\ call.stage = "subrouter"
     /\ call.evaluated = <<"subrouter">>

\* a list request that also names the help intent, with the logic sheet
\* failing: the failure message is the answer, not the help text
C6_Witness ==
  /\ Processed /\ WasReady
  /\ ListAllTrigger(Asked) /\ Contains(Asked, "ajuda")
  /\ "logica" \in sheet_ranges /\ ~Loadable("logica")
  /\ call.ret = LogicNotLoaded

----------------------------------------------------------------------------
(* C7 *)

\* C7: after construction and after any loads and reloads the router is
\* Ready iff the primary readiness flag is true: a call that does not reload
\* the primary tab leaves readiness as it was whatever happens to the
\* secondary tab, and a call that reloads it makes the router Ready exactly
\* when the primary fetch yields rows.
C7_ReadyFollowsPrimaryOnly ==
  /\ is_ready(Self) = is_ready_main
  /\ call.phase = "done" =>
       IF Fetched("main")
       THEN is_ready(Self) = Loadable("main")
       ELSE is_ready(Self) = call.pre.is_ready_main

\* the secondary tab was lost by a reload while the router stays Ready
C7_Witness ==
  /\ call.phase = "done" /\ call.op = "refresh" /\ call.arg = "secondary"
  /\ call.pre.is_ready_secondary /\ ~is_ready_secondary
  /\ is_ready(Self)

----------------------------------------------------------------------------
(* C8 *)

\* C8: after a load of a key whose fetch fails or yields an empty table the
\* key's readiness flag is false and its data source is absent, also when an
\* earlier load of the key had succeeded; the load raises nothing.
C8_FailedLoadClearsSource ==
  call.phase = "done" =>
     /\ (Fetched("main") /\ ~Loadable("main")) =>
           ~is_ready_main /\ analyzer_main = None
     /\ (Fetched("secondary") /\ ~Loadable("secondary")) =>
           ~is_ready_secondary /\ analyzer_secondary = None
     /\ (call.stage = "refresh" => call.ret.tag = "refresh_status")

\* a reload failed for a key that was loaded before
C8_Witness ==
  /\ call.phase = "done" /\ Fetched("main") /\ ~Loadable("main")
  /\ call.pre.analyzer_main # None
  /\ analyzer_main = None /\ ~is_ready_main

----------------------------------------------------------------------------
(* C9 *)

\* a refresh that includes the primary tab happens in this step
RefreshesMain ==
  /\ call.phase = "idle" /\ call'.phase = "done"
  /\ call'.stage = "refresh"
  /\ "main" \in SeqRange(call'.fetched)

\* C9: the router has no terminal state: from Degraded a refresh whose
\* primary fetch returns rows makes it Ready, and from Ready a refresh whose
\* primary fetch fails or is empty makes it Degraded, however often it
\* changed before.
C9_NoTerminalState ==
  [][ RefreshesMain =>
        /\ (~is_ready_main /\ Loadable("main")) => is_ready_main'
        /\ (is_ready_main /\ ~Loadable("main")) => ~is_ready_main' ]_vars

\* the router has changed between Ready and Degraded twice
C9_Witness ==
  /\ flips >= 2
  /\ call.phase = "done" /\ call.stage = "refresh"
  /\ is_ready_main # call.pre.is_ready_main

----------------------------------------------------------------------------
(* C10 *)

\* C10: a process() call that interleaves with a reload sees the old or the
\* new snapshot entirely: having read the readiness flag as true it never
\* finds the primary data source absent, and a data source it has tested as
\* present is never absent when it is then used.
C10_SnapshotNeverMixed ==
  \A t \in Threads :
     /\ loc[t].seen_main # "absent"
     /\ loc[t].ret # Raised("AttributeError")

----------------------------------------------------------------------------
(* C15 *)

\* the statements of _load_main_data and _load_secondary_data
LoadStatements ==
  { "main_fetch", "main_set_analyzer", "main_set_ready",
    "sec_fetch", "sec_set_analyzer", "sec_set_ready" }

\* no request thread is inside a loader
Quiescent == \A t \in Threads : pc[t] \notin LoadStatements

\* C15: in every reachable state with no load in progress, for each key the
\* readiness flag is true iff a data source is held for the key, and every
\* held data source wraps a table that is not empty.
C15_FlagIffNonEmptySource ==
  Quiescent =>
     /\ is_ready_main <=> (analyzer_main # None)
     /\ is_ready_secondary <=> (analyzer_secondary # None)
     /\ analyzer_main # None =>
          analyzer_main.tag = "Analyzer" /\ ~df_empty(analyzer_main.df)
     /\ analyzer_secondary # None =>
          analyzer_secondary.tag = "Analyzer"
          /\ ~df_empty(analyzer_secondary.df)

----------------------------------------------------------------------------
(* C16 *)

\* C16: every command the help message lists is recognised: in Ready state
\* none of them is answered with the default "did not understand" response.
C16_ListedCommandsRecognised ==
  (Processed /\ WasReady /\ call.arg \in HelpCommands) =>
     /\ call.stage # "default"
     /\ call.ret # get_default_response(call.arg)

----------------------------------------------------------------------------
(* C13 *)

\* the phrase occurs in the question, whatever the case of its letters
Mentions(question, phrase) == Contains(lower(question), phrase)

KeywordFree(question) ==
  \A k \in { "por que", "porque", "explique", "como funciona",
              "qual a diferença", "compare", "análise", "sugestão",
              "recomenda", "o que você acha", "me ajude", "não entendi",
              "dúvida", "quem", "o que é", "como" } : ~Mentions(question, k)

\* C13: shouldUseAI is true if the lower-cased question contains a phrase of
\* the fixed set; else false if it has at most 3 words and none of "quem",
\* "o que", "como"; else true if it has more than 15 words; else false.
\* "quem sou eu" gives true, "ok" gives false, and a keyword-free question
\* of more than 15 words gives true.
C13_ShouldUseAiProcedure ==
  (output # None /\ output.op = "should_use_ai") =>
     LET q == input.text
         n == word_count(q)
     IN /\ output.value =
             ( \/ ~KeywordFree(q)
               \/ /\ ~(n <= 3 /\ \A w \in {"quem", "o que", "como"} :
                                    ~Mentions(q, w))
                  /\ n > 15 )
        /\ q = "quem sou eu" => output.value
        /\ q = "ok" => ~output.value
        /\ (KeywordFree(q) /\ n > 15) => output.value

\* a keyword-free question of exactly fifteen words is not sent to the
\* completion client, one of sixteen words is
C13_Witness15 ==
  /\ output # None /\ output.op = "should_use_ai"
  /\ KeywordFree(input.text) /\ word_count(input.text) = 15
  /\ ~output.value

----------------------------------------------------------------------------
(* C14 *)

\* C14: shouldFallback(response) is true iff the response text, compared
\* case-insensitively, contains at least one of the six fixed phrases.
C14_ShouldFallbackPhrases ==
  (output # None /\ output.op = "should_fallback_to_ai") =>
     output.value =
       \E phrase \in { "não encontrei", "não entendi", "não consegui",
                       "tente reformular", "não sei", QuestionSign } :
          \E i \in 1..(Len(input.text) - Len(phrase) + 1) :
             lower(SubSeq(input.text, i, i + Len(phrase) - 1)) = phrase

\* the message about the logic sheet, which spells the phrase with a capital
\* letter, is recognised
C14_Witness ==
  /\ output # None /\ output.op = "should_fallback_to_ai"
  /\ input.text = text_of(LogicNotLoaded)
  /\ ~Contains(input.text, "não consegui")
  /\ output.value

----------------------------------------------------------------------------
(* C11, C12 *)

\* app.py has answered a message for a router that was Ready, with the
\* completion client configured
AnsweredReady ==
  /\ reply.phase = "done"
  /\ question_processor /\ reply.pre.is_ready_main
  /\ groq_client

\* the router returned a text
RouterAnswered == reply.router # None /\ reply.router.tag # "raised"

\* shouldFallback holds of the response of the router
FallbackTrigger ==
  RouterAnswered /\ should_fallback_to_ai(text_of(reply.router))

\* C11: for a Ready router with the completion client configured, the client
\* is invoked iff shouldFallback(router response) or shouldUseAI(question)
\* holds; when neither holds the router's response is returned unchanged.
C11_AiInvokedIffTriggered ==
  AnsweredReady =>
     /\ (reply.calls # <<>>) <=>
          (FallbackTrigger \/ should_use_ai(reply.question))
     /\ (~FallbackTrigger /\ ~should_use_ai(reply.question)) =>
          /\ RouterAnswered
          /\ reply.response = text_of(reply.router)

\* C12: when the completion request fails, the text the user receives is
\* exactly the response the router had computed.
C12_FailedAiFallsBack ==
  (AnsweredReady /\ reply.calls # <<>> /\ reply.api = "error") =>
     reply.response = text_of(reply.router)

----------------------------------------------------------------------------
(* C17 *)

SummaryOf == output.value
Summarized == output # None /\ output.op = "get_summary_by_product"

\* the keys of the table, and the row in which a key first appears
KeysOf(df) == { df.rows[i][1] : i \in 1..Len(df.rows) }
FirstRow(df, key) == Min({ i \in 1..Len(df.rows) : df.rows[i][1] = key })

\* the sum of the quantities of the rows with the key
RECURSIVE QuantityOf(_, _, _)
QuantityOf(df, key, i) ==
  IF i = 0 THEN 0
  ELSE QuantityOf(df, key, i - 1)
       + (IF df.rows[i][1] = key THEN df.rows[i][2] ELSE 0)

\* one row per key with the sum of its quantities, largest sum first
GroupedDescending ==
  LET df == input.df
      out == SummaryOf.rows
  IN /\ Len(out) = Cardinality(KeysOf(df))
     /\ { out[i][1] : i \in 1..Len(out) } = KeysOf(df)
     /\ \A i \in 1..Len(out) :
           out[i][2] = QuantityOf(df, out[i][1], Len(df.rows))
     /\ \A i, j \in 1..Len(out) : i < j => out[i][2] >= out[j][2]

\* groups with equal sums are in the order in which their keys first appear
TiesInFirstAppearanceOrder ==
  LET out == SummaryOf.rows
  IN \A i, j \in 1..Len(out) :
        (i < j /\ out[i][2] = out[j][2]) =>
           FirstRow(input.df, out[i][1]) < FirstRow(input.df, out[j][1])

\* C17 as stated: groupSummary returns one row per distinct product with the
\* sum of the quantity over the group, ordered by that sum descending, and
\* groups with equal sums appear in the order in which their key first
\* appears in the table.
C17_SummaryTiesFirstAppearance ==
  Summarized => (GroupedDescending /\ TiesInFirstAppearanceOrder)

\* C17 amended: groupSummary returns one row per distinct product with the
\* sum of the quantity over the group, ordered by that sum descending; the
\* order of groups with equal sums is not fixed.
C17_SummaryGroupedDescending ==
  /\ Summarized => GroupedDescending
  /\ (Summarized /\ input.df.rows = << <<"Caneta", 10>>, <<"Caderno", 5>>,
                                        <<"Caneta", 3>> >>) =>
        SummaryOf.rows = << <<"Caneta", 13>>, <<"Caderno", 5>> >>

\* two groups with equal sums, returned in the order of their keys and not
\* in the order of their first appearance
C17_Witness ==
  /\ Summarized
  /\ input.df.rows = << <<"Lapis", 5>>, <<"Caderno", 5>> >>
  /\ SummaryOf.rows = << <<"Caderno", 5>>, <<"Lapis", 5>> >>

----------------------------------------------------------------------------
(* C18 *)

Averaged == output # None /\ output.op = "get_weighted_average"

\* the rows the average is taken over
KeptRows ==
  IF input.filter.column = "" \/ input.filter.value = "" THEN input.df.rows
  ELSE SelectSeq(input.df.rows,
                 LAMBDA r : Contains(lower(r[1]), lower(input.filter.value)))

RECURSIVE WeightSum(_)
WeightSum(rws) == IF rws = <<>> THEN 0 ELSE Head(rws)[3] + WeightSum(Tail(rws))

RECURSIVE WeightedSum(_)
WeightedSum(rws) ==
  IF rws = <<>> THEN 0 ELSE Head(rws)[2] * Head(rws)[3] + WeightedSum(Tail(rws))

\* no rows, or weights that add up to 0
Degenerate == KeptRows = <<>> \/ WeightSum(KeptRows) = 0

\* the value returned is the quotient num / den
Returns(num, den) ==
  /\ output.value.den # 0
  /\ output.value.num * den = num * output.value.den

\* C18 as stated: weightedAverage returns 0.0 exactly when the (optionally
\* filtered) row set is empty or the sum of weights is 0, and in no other
\* case; otherwise it returns sum(value*weight)/sum(weight).
C18_ZeroExactlyWhenDegenerate ==
  Averaged =>
     /\ Returns(0, 1) <=> Degenerate
     /\ ~Degenerate => Returns(WeightedSum(KeptRows), WeightSum(KeptRows))

\* C18 amended: weightedAverage returns 0.0 whenever the (optionally
\* filtered) row set is empty or the sum of weights is 0; otherwise it
\* returns sum(value*weight)/sum(weight), which is 0.0 as well when the
\* weighted values add up to 0.
C18_ZeroWhenDegenerate ==
  Averaged =>
     /\ Degenerate => Returns(0, 1)
     /\ ~Degenerate => Returns(WeightedSum(KeptRows), WeightSum(KeptRows))

\* rows are left after a filter, their weights do not add up to 0, and the
\* average is 0.0 because their values are 0
C18_Witness ==
  /\ Averaged
  /\ input.filter.value # "" /\ Len(KeptRows) < Len(input.df.rows)
  /\ ~Degenerate
  /\ Returns(0, 1)

----------------------------------------------------------------------------
(* C19 *)

Resolved == output # None /\ output.op = "find_product_column"

\* the label contains an entry of the list, whatever the case of its letters
NamesProduct(label) ==
  \E name \in {"produto", "product", "nome", "name", "item", "sku"} :
     Contains(lower(label), name)

\* C19: product-column resolution returns the first column, in declared
\* order, whose name contains case-insensitively an entry of the fixed list,
\* and the first declared column when none does; the result is determined
\* by the ordered list of column names alone.
C19_FirstMatchingColumn ==
  Resolved =>
     LET cols == input.df.columns
         hits == { j \in 1..Len(cols) : NamesProduct(cols[j]) }
     IN IF hits = {} THEN output.value = cols[1]
        ELSE \E j \in hits : /\ output.value = cols[j]
                              /\ \A i \in 1..(j - 1) : i \notin hits

\* the first column matches a later entry of the list ("sku") and the second
\* column an earlier one ("produto"): the first column is returned
C19_Witness ==
  /\ Resolved
  /\ input.df.columns = <<"SKU", "Nome Produto">>
  /\ output.value = "SKU"

----------------------------------------------------------------------------
(* C20 *)

Formatted == output # None /\ output.op = "format_dataframe"

\* the lines of a text
RECURSIVE SplitLines(_)
SplitLines(text) ==
  IF ~Contains(text, "\n") THEN <<text>>
  ELSE LET i == Min({ k \in 1..Len(text) : SubSeq(text, k, k) = "\n" })
       IN <<SubSeq(text, 1, i - 1)>> \o SplitLines(SubSeq(text, i + 1, Len(text)))

\* how a cell is shown
Shown(c) == IF c = NaN THEN "-" ELSE c

\* the width of column j: its header or its longest shown cell
WidthOf(j) ==
  LET lens == { Len(input.df.columns[j]) } \cup
              { Len(Shown(input.df.rows[i][j])) : i \in 1..Len(input.df.rows) }
  IN CHOOSE w \in lens : \A x \in lens : x <= w

\* where column j starts in a line: after the columns before it and two
\* blanks for each
RECURSIVE StartOf(_)
StartOf(j) == IF j = 1 THEN 0 ELSE StartOf(j - 1) + WidthOf(j - 1) + 2

\* the line shows the cells left-justified in their columns, with blanks
\* everywhere else and exactly two blanks between columns
LineShows(line, cells) ==
  LET n == Len(input.df.columns) IN
  /\ Len(line) = StartOf(n) + WidthOf(n)
  /\ \A j \in 1..n :
        /\ SubSeq(line, StartOf(j) + 1, StartOf(j) + Len(cells[j])) = cells[j]
        /\ \A k \in (StartOf(j) + Len(cells[j]) + 1)..
                     (StartOf(j) + WidthOf(j) + (IF j < n THEN 2 ELSE 0)) :
              SubSeq(line, k, k) = " "

\* C20: a non-empty table is rendered as a header line followed by one line
\* per row in row order; missing cells are shown as "-", every column is
\* left-justified to the width of its header or its longest shown cell, and
\* the columns of a line are joined by exactly two blanks, so that the table
\* determines every character of the text.
C20_AlignedColumns ==
  Formatted =>
     LET lines == SplitLines(output.value)
         df == input.df
     IN /\ Len(lines) = 1 + Len(df.rows)
        /\ LineShows(lines[1], df.columns)
        /\ \A i \in 1..Len(df.rows) :
              LineShows(lines[i + 1],
                        [j \in 1..Len(df.columns) |-> Shown(df.rows[i][j])])

\* a table with a cell longer than its header, a missing cell and a column
\* whose header is longer than its cells
C20_Witness ==
  /\ Formatted
  /\ input.df = DataFrame(<<"Indicador", "Target", "Real">>,
                          << <<"entregas no prazo", NaN, "">>,
                             <<"", "entregas no prazo", NaN>> >>)
  /\ output.value =
       "Indicador          Target             Real\n"
       \o "entregas no prazo  -                      \n"
       \o "                   entregas no prazo  -   "

----------------------------------------------------------------------------
(* C21 *)

Extracted == output # None /\ output.op = "extract_product_name"

\* the places of a text where a token starts
TokenStarts(text) ==
  { i \in 1..Len(text) :
      /\ SubSeq(text, i, i) \notin Whitespace
      /\ (i = 1 \/ SubSeq(text, i - 1, i - 1) \in Whitespace) }

\* the token that starts at place i: up to the next white space or the end
TokenAt(text, i) ==
  LET last == CHOOSE k \in i..Len(text) :
                /\ \A m \in i..k : SubSeq(text, m, m) \notin Whitespace
                /\ (k = Len(text) \/ SubSeq(text, k + 1, k + 1) \in Whitespace)
  IN SubSeq(text, i, last)

StopWords ==
  { "quantidade", "total", "buscar", "procurar", "produto", "de", "do", "da" }

\* the tokens that start at the places S, in the order of the text, without
\* the stop-words and the tokens shorter than 3 characters
RECURSIVE SurvivingFrom(_, _)
SurvivingFrom(text, S) ==
  IF S = {} THEN <<>>
  ELSE LET i == CHOOSE x \in S : \A y \in S : x <= y
           w == TokenAt(text, i)
       IN (IF w \in StopWords \/ Len(w) < 3 THEN <<>> ELSE <<w>>)
          \o SurvivingFrom(text, S \ {i})

Surviving(text) == SurvivingFrom(text, TokenStarts(text))

\* tokens with one blank between them
RECURSIVE Spaced(_)
Spaced(ws) ==
  IF Len(ws) = 1 THEN ws[1] ELSE ws[1] \o " " \o Spaced(Tail(ws))

\* the product name the tokens ws make up
NameOf(ws) == IF ws = <<>> THEN None ELSE Str(Spaced(ws))

\* C21 as stated: extractProductName(text) splits the text on whitespace,
\* drops every token that is a stop-word or shorter than 3 characters and
\* joins the surviving tokens of the text with single spaces in their
\* original order; no product name when no token survives.
C21_TokensOfTheText ==
  Extracted => output.value = NameOf(Surviving(input.text))

\* C21 amended: the same, of the text in lower case: the stop-words are
\* dropped whatever their case and the surviving tokens are in lower case.
C21_TokensOfTheLoweredText ==
  Extracted => output.value = NameOf(Surviving(lower(input.text)))

\* a text in upper and lower case with a stop-word in upper case
C21_Witness ==
  /\ Extracted
  /\ input.text = "Buscar Notebook DA Empresa"
  /\ output.value = Str("notebook empresa")

----------------------------------------------------------------------------
(* C22 *)

\* the step is a refresh: refresh_data called directly, or reached by a
\* question that holds one of the words of the refresh intent
ExplicitRefresh ==
  /\ call.phase = "idle" /\ call'.phase = "done"
  /\ call'.stage = "refresh"
  /\ \/ call'.op = "refresh"
     \/ call'.op = "process" /\ ContainsAny(lower(call'.arg), RefreshWords)

\* C22: provider failures are never retried automatically: after
\* construction the readiness flags and the data sources change only in an
\* explicit refresh (direct call or refresh intent); every other step, a
\* process() call that does not reach the refresh intent or a change of the
\* spreadsheet service, leaves both flags and both data sources unchanged.
C22_ChangeOnlyByRefresh == [][ Self' # Self => ExplicitRefresh ]_vars

\* the primary tab no longer loads, a question other than a refresh was
\* answered from the data loaded before, and nothing was reloaded
C22_Witness ==
  /\ Processed /\ WasReady
  /\ call.stage \notin {"refresh", "not_ready"}
  /\ ~Loadable("main")
  /\ Self = call.pre /\ analyzer_main # None

----------------------------------------------------------------------------
(* C23 *)

\* a refresh has returned: refresh_data called directly with its scope, or
\* by the refresh intent, which passes no scope
Refreshed == call.phase = "done" /\ call.stage = "refresh"
Scope == IF call.op = "refresh" THEN call.arg ELSE "all"

\* the key was loaded again: it was fetched, and its flag and its data source
\* are what the fetch yields
Reloaded(key, flag, source) ==
  /\ Fetched(key)
  /\ flag = Loadable(key)
  /\ (source # None) = Loadable(key)

\* C23: refresh(scope) with scope a single key re-runs load for that key
\* only, leaves the other key's data source and readiness flag unchanged and
\* returns a status reflecting the new readiness of the reloaded key;
\* refresh('all') re-runs load for every key and returns one status line per
\* key reflecting that key's new readiness.
C23_RefreshScope ==
  Refreshed =>
     CASE Scope = "main" ->
            /\ call.fetched = <<"main">>
            /\ Reloaded("main", is_ready_main, analyzer_main)
            /\ is_ready_secondary = call.pre.is_ready_secondary
            /\ analyzer_secondary = call.pre.analyzer_secondary
            /\ call.ret.lines =
                 << IF is_ready_main THEN CheckMark \o " main recarregada!"
                    ELSE CrossMark \o " Falha ao recarregar main" >>
       [] Scope = "secondary" ->
            /\ call.fetched = <<"secondary">>
            /\ Reloaded("secondary", is_ready_secondary, analyzer_secondary)
            /\ is_ready_main = call.pre.is_ready_main
            /\ analyzer_main = call.pre.analyzer_main
            /\ call.ret.lines =
                 << IF is_ready_secondary
                    THEN CheckMark \o " secondary recarregada!"
                    ELSE CrossMark \o " Falha ao recarregar secondary" >>
       [] Scope = "all" ->
            /\ call.fetched = <<"main", "secondary">>
            /\ Reloaded("main", is_ready_main, analyzer_main)
            /\ Reloaded("secondary", is_ready_secondary, analyzer_secondary)
            /\ call.ret.lines =
                 << IF is_ready_main THEN CheckMark \o " Aba principal OK"
                    ELSE CrossMark \o " Aba principal falhou",
                    IF is_ready_secondary THEN CheckMark \o " Aba secundária OK"
                    ELSE WarningSign \o " Aba secundária indisponível" >>

\* the secondary tab alone is reloaded and lost, while the primary tab, which
\* would not load either, stays as it was
C23_Witness ==
  /\ Refreshed /\ call.op = "refresh" /\ Scope = "secondary"
  /\ call.pre.is_ready_secondary /\ ~is_ready_secondary
  /\ ~Loadable("main") /\ is_ready_main

----------------------------------------------------------------------------
(* C24 *)

\* the single-sheet router has answered a question in Ready state
AnsweredSingle == call.phase = "done" /\ call.op = "single" /\ WasReady

\* the literal commands of the help message and the handler the help text
\* describes for each
Documented ==
  { <<"quantidade total", "_get_total_quantity">>,
    <<"top 10", "_get_top_products">>,
    <<"top 5", "_get_top_products">>,
    <<"resumo por produto", "_get_product_summary">>,
    <<"colunas", "_list_columns">>,
    <<"prévia", "_show_data_preview">>,
    <<"recarregar", "refresh_data">>,
    <<"ajuda", "_get_help_message">> }

\* C24: in the single-sheet router each literal command documented in its
\* help message is dispatched in Ready state to the handler the help text
\* describes; in particular 'resumo por produto' reaches the summary by
\* product and not the search or the statistics.
C24_DocumentedCommandsDispatched ==
  AnsweredSingle =>
     \A d \in Documented : call.arg = d[1] => call.stage = d[2]

\* the documented commands other than 'resumo por produto' reach their
\* handlers
C24_OtherCommandsDispatched ==
  AnsweredSingle =>
     \A d \in Documented :
        (call.arg = d[1] /\ d[1] # "resumo por produto") => call.stage = d[2]

----------------------------------------------------------------------------
(* C25 *)

\* refresh_data is called directly in this step
DirectRefreshStep ==
  /\ call.phase = "idle" /\ call'.phase = "done"
  /\ call'.op = "refresh"

\* the step answers a question: a process() call of the router, or a chat
\* message handled by process_question of app.py
QuestionStep ==
  \/ call.phase = "idle" /\ call'.phase = "done" /\ call'.op = "process"
  \/ reply.phase = "idle" /\ reply'.phase = "done"

\* C25: Degraded is absorbing under inbound messages: a question answered
\* while the router is not Ready, by process() or through process_question of
\* app.py, never reaches the refresh intent and leaves the flags and the data
\* sources as they were; only a direct refresh() call returns the router to
\* Ready.
C25_DegradedAbsorbing ==
  [][ /\ (~is_ready_main /\ QuestionStep) =>
           /\ Self' = Self
           /\ call'.stage # "refresh"
      /\ (~is_ready_main /\ is_ready_main') => DirectRefreshStep ]_vars

\* the primary tab would load again, a reload was asked for in the chat and
\* through process(), and the router is still not Ready
C25_Witness ==
  /\ question_processor /\ ~is_ready_main
  /\ Loadable("main")
  /\ Processed /\ ContainsAny(Asked, RefreshWords)
  /\ call.ret = NotReady

\* the same through app.py
C25_WitnessChat ==
  /\ question_processor /\ ~is_ready_main
  /\ Loadable("main")
  /\ reply.phase = "done" /\ reply.question = "recarregar"
  /\ reply.calls = <<>>

----------------------------------------------------------------------------
(* C26 *)

\* the router matched no intent and returned its default response
NoIntentMatched ==
  reply.phase = "done" /\ RouterAnswered /\ reply.router.tag = "default"

\* the answer carries the mark of generate_ai_response
AiMarked == SubSeq(reply.response, 1, 2) = RobotFace \o " "

\* C26: the default 'didn't understand' response always satisfies
\* shouldFallback: it contains 'não entendi' and the question sign; hence for
\* a Ready router with the completion client configured every message that
\* matches no intent leads to a call of the completion client, and the user
\* is not answered with the default response (nothing raises on that path).
C26_DefaultAlwaysFallsBack ==
  NoIntentMatched =>
     /\ Contains(text_of(reply.router), "não entendi")
     /\ Contains(text_of(reply.router), QuestionSign)
     /\ FallbackTrigger
     /\ AnsweredReady =>
          /\ reply.calls # <<>>
          /\ AiMarked
          /\ reply.response # text_of(reply.router)

\* a question that is not complex matches no intent while the completion
\* service fails: the user gets the marked apology, not the default response
C26_Witness ==
  /\ AnsweredReady /\ NoIntentMatched
  /\ ~should_use_ai(reply.question)
  /\ reply.api = "error"
  /\ reply.calls = <<"analyze_with_data">>
  /\ AiMarked

----------------------------------------------------------------------------
(* C27 *)

\* the sub-router was triggered and could not load the logic tab
LogicSheetFailed ==
  reply.phase = "done" /\ RouterAnswered /\ reply.router = LogicNotLoaded

\* C27: the 'could not load logic sheet' message of the sub-router satisfies
\* shouldFallback, since in lower case it contains 'não consegui'; hence with
\* the completion client configured a triggered sub-router whose logic tab
\* failed to load results in a call of the completion client, and the user
\* receives the marked answer instead of the 'could not load' message.
C27_LogicFailureFallsBack ==
  LogicSheetFailed =>
     /\ Contains(lower(text_of(reply.router)), "não consegui")
     /\ FallbackTrigger
     /\ AnsweredReady =>
          /\ reply.calls # <<>>
          /\ AiMarked
          /\ reply.response # text_of(reply.router)

\* an explanation is asked for with a question that is not complex while the
\* logic tab does not load
C27_Witness ==
  /\ AnsweredReady /\ LogicSheetFailed
  /\ reply.question = "Explicar OTD"
  /\ ~should_use_ai(reply.question)
  /\ reply.calls = <<"analyze_with_data">>
  /\ AiMarked

----------------------------------------------------------------------------
(* C28 *)

\* the router answered the message with the status of a reload
RefreshMatched ==
  reply.phase = "done" /\ RouterAnswered /\ reply.router.tag = "refresh_status"

\* both tabs are as a load leaves them with the service as it is
BothReloaded ==
  /\ is_ready_main = Loadable("main")
  /\ (analyzer_main # None) = Loadable("main")
  /\ is_ready_secondary = Loadable("secondary")
  /\ (analyzer_secondary # None) = Loadable("secondary")

\* C28: for a Ready router process() always runs to completion before the
\* fallback decision is applied: a message that reaches the refresh intent
\* reloads the data sources, and may flip readiness, also when
\* shouldUseAI(question) holds and the status text of the router is then
\* discarded in favour of the answer of the completion client.
C28_RouterRunsBeforeFallback ==
  AnsweredReady =>
     /\ reply.router # None
     /\ RefreshMatched =>
          /\ BothReloaded
          /\ should_use_ai(reply.question) =>
               /\ reply.calls # <<>>
               /\ AiMarked
               /\ reply.response # text_of(reply.router)

\* a complex question with a refresh word: the reload made the router lose
\* its primary tab, and the user got the answer of the completion client
C28_Witness ==
  /\ AnsweredReady /\ RefreshMatched
  /\ reply.question = "por que recarregar"
  /\ should_use_ai(reply.question)
  /\ ~is_ready_main
  /\ AiMarked

----------------------------------------------------------------------------
(* C29 *)

\* app.py has answered a message while the router did not exist or was not
\* Ready
AnsweredWithoutRouter ==
  /\ reply.phase = "done"
  /\ ~(question_processor /\ reply.pre.is_ready_main)

\* C29: when the router does not exist or is not Ready, process_question of
\* app.py calls neither answer operation of the completion client and does
\* not call the router, whatever the question, also when shouldUseAI holds of
\* it; it returns 'still loading' when the router exists and 'not
\* configured' when it does not, and the router is left as it was.
C29_NoAiWithoutReadyRouter ==
  AnsweredWithoutRouter =>
     /\ reply.calls = <<>>
     /\ reply.router = None
     /\ Self = reply.pre
     /\ reply.response =
          IF question_processor
          THEN Hourglass \o " Ainda estou carregando os dados. "
               \o "Tente novamente em instantes."
          ELSE CrossMark \o " Bot não está configurado corretamente."

\* a complex question, the completion client configured and working, a
\* router that exists but is not Ready
C29_Witness ==
  /\ AnsweredWithoutRouter
  /\ question_processor /\ groq_client /\ reply.api = "ok"
  /\ should_use_ai(reply.question)
  /\ reply.calls = <<>>

----------------------------------------------------------------------------
(* C30 *)

UsedAi == output # None /\ output.op = "should_use_ai"

\* the number of whitespace-separated words of a text
Words(text) == Cardinality(TokenStarts(text))

\* C30: shouldUseAI(question) is equivalent to: the lower-cased question
\* contains a phrase of the fixed set, or the question has more than 15
\* whitespace-separated words; the rule for questions of at most 3 words
\* never changes the result.
C30_ShortRuleRedundant ==
  UsedAi =>
     (output.value <=> (~KeywordFree(input.text) \/ Words(input.text) > 15))

\* a question of at most three words with a phrase of the set, none of them
\* 'quem', 'o que' or 'como': the rule for short questions would apply, and
\* the result is true
C30_Witness ==
  /\ UsedAi
  /\ Words(input.text) <= 3
  /\ ~KeywordFree(input.text)
  /\ \A w \in {"quem", "o que", "como"} : ~Mentions(input.text, w)
  /\ output.value

====
